---- MODULE Spec2Model ----
(***************************************************************************)
(* Module lifecycle engine of the Kernel bot: the Registry table           *)
(* (src/modules/registry.py), the PythonModule lifecycle                   *)
(* (src/modules/python/module.py) and the update command with its backup   *)
(* and restore steps (src/commands/module/update.py).                      *)
(*                                                                         *)
(* Tasks are asyncio tasks.  One action runs a task from one suspension    *)
(* point (a real await: thread hand-off, sleep, network call) to the next, *)
(* which is the granularity at which the event loop interleaves them.      *)
(***************************************************************************)
EXTENDS Integers, FiniteSets, Sequences, TLC

\* ---------------------------------------------------------------- bounds
MaxCmds == 2
MaxInst == 5

\* ------------------------------------------------------------- universes
Names == {"m1"}
Tasks == {1, 2}
InstIds == 1..MaxInst
NoInst == 0
NoTask == 0
NoDir == [absent |-> TRUE]
NoCode == <<0, FALSE>>
LocalVer == 1
RemoteVer == 2
Versions == {LocalVer, RemoteVer}
\* A working tree: the committed content, whether tracked files carry
\* uncommitted edits, whether local_changes.patch and requirements.txt exist,
\* and whether the content passes check_local_module.
Trees == [ver : Versions, dirty : BOOLEAN, patch : BOOLEAN, reqs : BOOLEAN,
          ok : BOOLEAN]
\* What an import of the tree's main.py puts into sys.modules.
CodeOf(tree) == <<tree.ver, tree.dirty>>

VARIABLES
    _modules,      \* Registry._modules: name -> instance id (NoInst: no entry)
    _is_loaded,    \* Module._is_loaded of every instance
    _state_lock,   \* PythonModule._state_lock of every instance: its holder
    nextInst,      \* the next instance the registry constructs
    extensions,    \* the host extension point: extensions registered with arc
    sys_modules,   \* process-wide namespace: code units owned by each module
    disk,          \* EXTENSIONS_DIR / name
    bak,           \* BACKUP_DIR / name
    task,          \* per task: the command it runs, its position, its locals
    cmdCount,      \* commands issued so far
    repo,          \* a git repository or its URL, as the functions of git/utils.py see it
    pulled,        \* what the last call on that repository did and returned
    _watcher,      \* Jurigged._watcher is set
    notifier,      \* the jurigged notification source behind the watcher
    _pending,      \* Jurigged._pending
    _drain_task,   \* Jurigged._drain_task refers to a task
    drain,         \* the _drain_targets coroutine of that task
    stop,          \* the position of Jurigged.stop
    seen,          \* what has been observed of the watcher so far
    _cache         \* the lru_cache of detect_module_type: path -> cached result

\* The repository of pull_repo and the hot-reload watcher.
others == <<repo, pulled, _watcher, notifier, _pending, _drain_task, drain,
            stop, seen, _cache>>

vars == <<_modules, _is_loaded, _state_lock, nextInst, extensions,
          sys_modules, disk, bak, task, cmdCount, others>>

\* ---- The repository of pull_repo (git/utils.py) ----

MaxCommits == 2
Commits == 1..MaxCommits
NoCommit == 0

\* A repository directory: whether it opens as a repository and has a remote
\* named origin; the commit the remote's default branch is at upstream; the
\* targets of refs/remotes/origin/<default> and of refs/heads/<default>
\* (NoCommit: no such reference); where HEAD is attached ("default": to
\* refs/heads/<default>, "other": to another branch or detached) and, in the
\* second case, the commit it is at; the commit the working tree holds.
Repos ==
    [opens : BOOLEAN, origin : BOOLEAN, upstream : Commits,
     remote : Commits \cup {NoCommit}, branch : Commits \cup {NoCommit},
     head : {"default", "other"}, other : Commits, worktree : Commits]

NoRepo == [absent |-> TRUE]
NoPull == [status |-> -1]

\* ---- The hot-reload watcher (shared/utils/jurigged.py) ----

\* debounce_seconds, in clock ticks.
Debounce == 2
MaxChanges == 3

\* _ReloadTarget: a (kind, name) pair.
Targets == [kind : {"module"}, name : Names] \cup {[kind |-> "extension", name |-> "ext"]}

\* The _drain_targets coroutine: where it is, the ticks its sleep still has
\* to run, the targets it has still to reload, and the task slot of the
\* Registry call it is awaiting.
\* Nothing has been cached: detect_module_type has not been called.
NoCache == [absent |-> TRUE]

NoDrain ==
    [st |-> "none", wake |-> 0, todo |-> {}, slot |-> NoTask,
     taken |-> {}, attempts |-> [x \in Targets |-> 0], raised |-> -1]

\* The change events so far, the ticks since the most recent one (counted up
\* to Debounce; -1: none yet) and the reloads triggered so far.
NoSeen == [changes |-> 0, since_change |-> -1, triggers |-> 0]

\* No repository is being pulled and the watcher is not started.
InitOthers ==
    /\ repo = NoRepo
    /\ pulled = NoPull
    /\ _watcher = FALSE
    /\ notifier = "stopped"
    /\ _pending = {}
    /\ _drain_task = FALSE
    /\ drain = NoDrain
    /\ stop = "idle"
    /\ seen = NoSeen
    /\ _cache = NoCache

Idle ==
    [cmd |-> "none", name |-> "none", pc |-> "idle",
     module |-> NoInst, old_module |-> NoInst, is_reload |-> FALSE,
     phase |-> "none", rcalls |-> 0, ret |-> "none", lfail |-> "none",
     backup_submodules |-> NoCode,
     original_commit_id |-> 0, has_local_changes |-> FALSE,
     pull_result |-> -1, pip_calls |-> 0, failstep |-> "none",
     restore |-> "none", outcome |-> "none",
     modules |-> <<>>, index |-> 0, failed |-> {},
     locked |-> FALSE, put |-> NoInst,
     pre |-> [tree |-> NoDir, registered |-> FALSE, loaded |-> FALSE,
              ext |-> FALSE, code |-> NoCode]]

\* The state after construction and startup: every module directory holds a
\* clone at the local commit; a module is either loaded (main.py:145) or
\* freshly cloned and not yet loaded.  A loaded module passed validation when
\* it was loaded; its files may have been edited since, so its code units are
\* those of the tree as it is or of the tree before the edit.
InitTree(d, r, k) ==
    [ver |-> LocalVer, dirty |-> d, patch |-> FALSE, reqs |-> r, ok |-> k]

\* Instance ids of the modules loaded at startup, in a fixed order.
StartupInst == CHOOSE f \in [Names -> 1..Cardinality(Names)] :
                 \A a, b \in Names : a # b => f[a] # f[b]

InitHost ==
    /\ \E loadedNames \in SUBSET Names, d \in [Names -> BOOLEAN], r \in [Names -> BOOLEAN],
          edited \in [Names -> BOOLEAN], k \in [Names -> BOOLEAN] :
         /\ \A n \in Names : edited[n] => (n \in loadedNames /\ d[n])
         /\ \A n \in Names : (n \in loadedNames /\ ~edited[n]) => k[n]
         /\ _modules = [n \in Names |-> IF n \in loadedNames THEN StartupInst[n] ELSE NoInst]
         /\ _is_loaded = [i \in InstIds |-> \E n \in loadedNames : StartupInst[n] = i]
         /\ extensions = loadedNames
         /\ disk = [n \in Names |-> InitTree(d[n], r[n], k[n])]
         /\ sys_modules = [n \in Names |->
                IF n \in loadedNames
                THEN CodeOf(InitTree(d[n] /\ ~edited[n], r[n], TRUE))
                ELSE NoCode]
    /\ _state_lock = [i \in InstIds |-> NoTask]
    /\ nextInst = Cardinality(Names) + 1
    /\ bak = [n \in Names |-> NoDir]
    /\ task = [t \in Tasks |-> Idle]
    /\ cmdCount = 0

Init == InitHost /\ InitOthers

\* The host with no module cloned and the watcher not started.
InitIdleHost ==
    /\ _watcher = FALSE
    /\ notifier = "stopped"
    /\ _pending = {}
    /\ _drain_task = FALSE
    /\ drain = NoDrain
    /\ stop = "idle"
    /\ seen = NoSeen
    /\ _cache = NoCache
    /\ _modules = [n \in Names |-> NoInst]
    /\ _is_loaded = [i \in InstIds |-> FALSE]
    /\ _state_lock = [i \in InstIds |-> NoTask]
    /\ nextInst = 1
    /\ extensions = {}
    /\ sys_modules = [n \in Names |-> NoCode]
    /\ disk = [n \in Names |-> NoDir]
    /\ bak = [n \in Names |-> NoDir]
    /\ task = [t \in Tasks |-> Idle]
    /\ cmdCount = 0

\* ------------------------------------------------------------ primitives
Put(f, k, v) == [f EXCEPT ![k] = v]

\* Registry._replace_loaded_module: self._modules[module_name] = module
_replace_loaded_module(tbl, n, i) == Put(tbl, n, i)

\* delete_module: removes the module directory when it is one; the
\* directory stays when rmtree raises.
delete_module(dk, n) == {Put(dk, n, NoDir), dk}

\* PythonModule._purge_loaded_modules: evicts the module's code units.
_purge_loaded_modules(sm, n) == Put(sm, n, NoCode)

\* arc load_extension imports the entry module (from sys.modules when it is
\* cached there, from disk otherwise) and registers it; it raises when the
\* extension is already registered or when there is nothing to import.
CanLoadExtension(ext, sm, dk, n) ==
    /\ n \notin ext
    /\ (sm[n] # NoCode \/ dk[n] # NoDir)

Imported(sm, dk, n) == IF sm[n] # NoCode THEN sm ELSE Put(sm, n, CodeOf(dk[n]))

\* What a registry call hands back to the command that made it.
Ret(r, v, lf) ==
    LET r1 == [r EXCEPT !.ret = v, !.lfail = lf, !.rcalls = @ + 1] IN
    IF r.cmd = "cmd_module_update"
    THEN IF r.phase = "reload"
         THEN IF v = "True"
              THEN [r1 EXCEPT !.pc = "u_patch"]
              ELSE [r1 EXCEPT !.pc = "u_restore", !.failstep = "reload"]
         ELSE [r1 EXCEPT !.pc = "u_cleanup",
                         !.outcome = IF v = "True" THEN "restored_loaded"
                                                   ELSE "restored_not_loaded"]
    ELSE IF r.cmd = "cmd_module_unload"
    THEN [r1 EXCEPT !.pc = "mu_delete"]
    ELSE IF r.cmd = "unload_all"
    THEN [r1 EXCEPT !.pc = "ua_next",
                    !.failed = IF v = "True" THEN @ ELSE @ \cup {r.name}]
    ELSE [r1 EXCEPT !.pc = "done"]

\* A load_module whose failure path registers the instance that failed.
FailedLoadTable_KeepsNew(tbl, n, module, old_module, is_reload) ==
    _replace_loaded_module(tbl, n, module)

\* A load_module whose failure path leaves the table as the pop left it.
FailedLoadTable_NoRestore(tbl, n, module, old_module, is_reload) == tbl

\* Registry.load_module, lines 140-142: the table after a failed load.
FailedLoadTable(tbl, n, module, old_module, is_reload) ==
    IF old_module # NoInst /\ is_reload
    THEN _replace_loaded_module(tbl, n, old_module)
    ELSE tbl

\* A load_module without the check of line 112.
IsDuplicateLoad_NoCheck(old_module, is_reload) == FALSE

\* Registry.load_module, line 112: a load of a registered name that is not a
\* reload is turned away.
IsDuplicateLoad(old_module, is_reload) == old_module # NoInst /\ ~is_reload

\* Registry.is_module_loaded
is_module_loaded(n) == _modules[n] # NoInst /\ _is_loaded[_modules[n]]

\* What a command sees of a module when it starts on it.
Snapshot(n) ==
    [tree |-> disk[n],
     registered |-> _modules[n] # NoInst,
     loaded |-> _modules[n] # NoInst /\ _is_loaded[_modules[n]],
     ext |-> n \in extensions,
     code |-> sys_modules[n]]

\* ------------------------------------------------- Registry.load_module
\* From the call up to the first suspension: _create_module, the locked
\* table section and, on a reload, the start of the old instance's unload.
load_module_enter(t, r) ==
    LET n == r.name
        old == _modules[n]
        m == nextInst
    IN
    /\ UNCHANGED <<_is_loaded, sys_modules, disk, bak, cmdCount>>
    /\ IF disk[n] = NoDir
       THEN \* _create_module returns None
            /\ task' = Put(task, t, Ret(r, "False", "nomodule"))
            /\ UNCHANGED <<_modules, _state_lock, nextInst, extensions>>
       ELSE /\ nextInst <= MaxInst
            /\ nextInst' = nextInst + 1
            /\ IF IsDuplicateLoad(old, r.is_reload)
               THEN \* already registered: no duplicate load
                    /\ task' = Put(task, t,
                                   Ret([r EXCEPT !.module = m, !.old_module = old],
                                       "False", "duplicate"))
                    /\ UNCHANGED <<_modules, _state_lock, extensions>>
               ELSE IF r.is_reload /\ old # NoInst
               THEN \* reload: del self._modules[name]; await old_module.unload()
                    /\ _state_lock[old] = NoTask
                    /\ _modules' = Put(_modules, n, NoInst)
                    /\ \/ \* unload_extension raises: unload() returns failure
                          /\ task' = Put(task, t, [r EXCEPT !.module = m,
                                                   !.old_module = old, !.pc = "lm_sleep"])
                          /\ UNCHANGED <<_state_lock, extensions>>
                       \/ /\ n \in extensions
                          /\ extensions' = extensions \ {n}
                          /\ _state_lock' = Put(_state_lock, old, t)
                          /\ task' = Put(task, t, [r EXCEPT !.module = m,
                                                   !.old_module = old, !.pc = "old_unload"])
               ELSE \* nothing registered: straight to module.load
                    /\ _state_lock' = Put(_state_lock, m, t)
                    /\ task' = Put(task, t, [r EXCEPT !.module = m,
                                             !.old_module = NoInst, !.pc = "validate"])
                    /\ UNCHANGED <<_modules, extensions>>

load_module(t) ==
    /\ task[t].pc = "lm_call"
    /\ UNCHANGED others
    /\ load_module_enter(t, [task[t] EXCEPT !.pre = Snapshot(task[t].name)])

\* PythonModule.unload of the old instance, after its resync: the instance is
\* marked unloaded and its code units are evicted; then the settle delay.
old_unload(t) ==
    LET r == task[t] IN
    /\ r.pc = "old_unload"
    /\ UNCHANGED others
    /\ _is_loaded' = Put(_is_loaded, r.old_module, FALSE)
    /\ sys_modules' = _purge_loaded_modules(sys_modules, r.name)
    /\ _state_lock' = Put(_state_lock, r.old_module, NoTask)
    /\ task' = Put(task, t, [r EXCEPT !.pc = "lm_sleep"])
    /\ UNCHANGED <<_modules, nextInst, extensions, disk, bak, cmdCount>>

\* After asyncio.sleep: module.load takes the new instance's lock and
\* _validate looks at the module path.
lm_sleep(t) ==
    LET r == task[t]
        n == r.name
    IN
    /\ r.pc = "lm_sleep"
    /\ UNCHANGED others
    /\ _state_lock[r.module] = NoTask
    /\ UNCHANGED <<_is_loaded, nextInst, extensions, sys_modules, disk, bak, cmdCount>>
    /\ IF disk[n] = NoDir
       THEN /\ _modules' = FailedLoadTable(_modules, n, r.module, r.old_module, r.is_reload)
            /\ task' = Put(task, t, Ret(r, "False", "validate"))
            /\ UNCHANGED _state_lock
       ELSE /\ _state_lock' = Put(_state_lock, r.module, t)
            /\ task' = Put(task, t, [r EXCEPT !.pc = "validate"])
            /\ UNCHANGED _modules

\* PythonModule._reload_extension, the except branch: unregister again, evict
\* again, put the snapshot back into the namespace, register again.
Rollback(t, r, ext0, sm0) ==
    LET n == r.name
        ext1 == ext0 \ {n}
        sm1 == Put(_purge_loaded_modules(sm0, n), n, r.backup_submodules)
    IN
    /\ UNCHANGED <<nextInst, disk, bak, cmdCount>>
    /\ \/ \* the second registration goes through; its resync is awaited
          /\ CanLoadExtension(ext1, sm1, disk, n)
          /\ extensions' = ext1 \cup {n}
          /\ sys_modules' = Imported(sm1, disk, n)
          /\ task' = Put(task, t, [r EXCEPT !.pc = "rollback_resync"])
          /\ UNCHANGED <<_modules, _is_loaded, _state_lock>>
       \/ \* the second registration raises as well
          /\ extensions' = ext1
          /\ sys_modules' = sm1
          /\ _is_loaded' = Put(_is_loaded, r.module, FALSE)
          /\ _state_lock' = Put(_state_lock, r.module, NoTask)
          /\ _modules' = FailedLoadTable(_modules, n, r.module, r.old_module, r.is_reload)
          /\ task' = Put(task, t, Ret(r, "False", "rollback_failed"))

\* PythonModule._reload_extension up to its first suspension.
_reload_extension(t, r) ==
    LET n == r.name
        r1 == [r EXCEPT !.backup_submodules = sys_modules[n]]
        ext1 == extensions \ {n}
        sm1 == _purge_loaded_modules(sys_modules, n)
    IN
    \/ /\ CanLoadExtension(ext1, sm1, disk, n)
       /\ extensions' = ext1 \cup {n}
       /\ sys_modules' = Imported(sm1, disk, n)
       /\ task' = Put(task, t, [r1 EXCEPT !.pc = "reload_resync"])
       /\ UNCHANGED <<_modules, _is_loaded, _state_lock, nextInst, disk, bak, cmdCount>>
    \/ Rollback(t, r1, ext1, sm1)

\* PythonModule._load_fresh up to its first suspension.
_load_fresh(t, r) ==
    LET n == r.name IN
    /\ UNCHANGED <<_modules, _is_loaded, _state_lock, nextInst, disk, bak, cmdCount>>
    /\ \/ /\ CanLoadExtension(extensions, sys_modules, disk, n)
          /\ extensions' = extensions \cup {n}
          /\ sys_modules' = Imported(sys_modules, disk, n)
          /\ task' = Put(task, t, [r EXCEPT !.pc = "fresh_resync"])
       \/ /\ task' = Put(task, t, [r EXCEPT !.pc = "fresh_delete"])
          /\ UNCHANGED <<extensions, sys_modules>>

\* check_local_module: the path is a directory whose content has a main.py
\* that compiles and dependencies that are met.
check_local_module(dk, n) == dk[n] # NoDir /\ dk[n].ok

\* PythonModule.load once check_local_module has answered.
validate(t) ==
    LET r == task[t]
        n == r.name
    IN
    /\ r.pc = "validate"
    /\ UNCHANGED others
    /\ \/ \* validation fails
          /\ ~check_local_module(disk, n)
          /\ _state_lock' = Put(_state_lock, r.module, NoTask)
          /\ UNCHANGED <<_is_loaded, nextInst, extensions, sys_modules, disk, bak, cmdCount>>
          /\ IF r.is_reload
             THEN /\ _modules' = FailedLoadTable(_modules, n, r.module, r.old_module, r.is_reload)
                  /\ task' = Put(task, t, Ret(r, "False", "validate"))
             ELSE /\ task' = Put(task, t, [r EXCEPT !.pc = "lm_delete", !.lfail = "validate"])
                  /\ UNCHANGED _modules
       \/ \* validation passes
          /\ check_local_module(disk, n)
          /\ IF r.is_reload THEN _reload_extension(t, r) ELSE _load_fresh(t, r)

\* PythonModule.load when check_local_module raises instead of answering (a
\* main.py or requirements.txt that is not valid UTF-8, a version string that
\* does not parse): _validate is outside every try block, so the exception
\* leaves load, releasing the instance lock, and then Registry.load_module.
validate_raises(t) ==
    LET r == task[t]
        n == r.name
    IN
    /\ r.pc = "validate"
    /\ UNCHANGED others
    /\ ~check_local_module(disk, n)
    /\ _state_lock' = Put(_state_lock, r.module, NoTask)
    /\ task' = Put(task, t, Ret(r, "raised", "validate"))
    /\ UNCHANGED <<_modules, _is_loaded, nextInst, extensions, sys_modules, disk,
                   bak, cmdCount>>

\* _reload_extension after the resync that follows the new registration.
reload_resync(t) ==
    LET r == task[t] IN
    /\ r.pc = "reload_resync"
    /\ UNCHANGED others
    /\ \/ /\ _is_loaded' = Put(_is_loaded, r.module, TRUE)
          /\ _state_lock' = Put(_state_lock, r.module, NoTask)
          /\ _modules' = _replace_loaded_module(_modules, r.name, r.module)
          /\ task' = Put(task, t, Ret(r, "True", "none"))
          /\ UNCHANGED <<nextInst, extensions, sys_modules, disk, bak, cmdCount>>
       \/ Rollback(t, r, extensions, sys_modules)

\* _reload_extension after the resync that follows the rollback registration.
rollback_resync(t) ==
    LET r == task[t] IN
    /\ r.pc = "rollback_resync"
    /\ UNCHANGED others
    /\ _state_lock' = Put(_state_lock, r.module, NoTask)
    /\ _modules' = FailedLoadTable(_modules, r.name, r.module, r.old_module, r.is_reload)
    /\ UNCHANGED <<nextInst, extensions, sys_modules, disk, bak, cmdCount>>
    /\ \/ /\ _is_loaded' = Put(_is_loaded, r.module, TRUE)
          /\ task' = Put(task, t, Ret(r, "False", "rolled_back"))
       \/ /\ _is_loaded' = Put(_is_loaded, r.module, FALSE)
          /\ task' = Put(task, t, Ret(r, "False", "rollback_failed"))

\* _load_fresh after the resync that follows the registration.
fresh_resync(t) ==
    LET r == task[t] IN
    /\ r.pc = "fresh_resync"
    /\ UNCHANGED others
    /\ UNCHANGED <<nextInst, extensions, sys_modules, disk, bak, cmdCount>>
    /\ \/ /\ _is_loaded' = Put(_is_loaded, r.module, TRUE)
          /\ _state_lock' = Put(_state_lock, r.module, NoTask)
          /\ _modules' = _replace_loaded_module(_modules, r.name, r.module)
          /\ task' = Put(task, t, Ret(r, "True", "none"))
       \/ /\ task' = Put(task, t, [r EXCEPT !.pc = "fresh_delete"])
          /\ UNCHANGED <<_modules, _is_loaded, _state_lock>>

\* _load_fresh, the except branch: the module directory is deleted.
fresh_delete(t) ==
    LET r == task[t] IN
    /\ r.pc = "fresh_delete"
    /\ UNCHANGED others
    /\ disk' \in delete_module(disk, r.name)
    /\ _state_lock' = Put(_state_lock, r.module, NoTask)
    /\ task' = Put(task, t, [r EXCEPT !.pc = "lm_delete", !.lfail = "register"])
    /\ UNCHANGED <<_modules, _is_loaded, nextInst, extensions, sys_modules, bak, cmdCount>>

\* Registry.load_module, lines 130-142: a failed fresh load notifies the
\* operators, deletes the module directory and returns False.
lm_delete(t) ==
    LET r == task[t] IN
    /\ r.pc = "lm_delete"
    /\ UNCHANGED others
    /\ disk' \in delete_module(disk, r.name)
    /\ _modules' = FailedLoadTable(_modules, r.name, r.module, r.old_module, r.is_reload)
    /\ task' = Put(task, t, Ret(r, "False", r.lfail))
    /\ UNCHANGED <<_is_loaded, _state_lock, nextInst, extensions, sys_modules, bak, cmdCount>>

\* ------------------------------------------------ Registry.reload_module
\* A reload_module that never finds the name missing.
IsRegistered_Always(tbl, n) == TRUE

\* Registry.reload_module, line 172: _get_module(name) is not None.
IsRegistered(tbl, n) == tbl[n] # NoInst

\* Registry.reload_module: nothing happens for a name that is not in the
\* table; otherwise the call is load_module(name, is_reload=True).
reload_module(t) ==
    LET r == task[t] IN
    /\ r.pc = "rm_call"
    /\ UNCHANGED others
    /\ IF ~IsRegistered(_modules, r.name)
       THEN /\ task' = Put(task, t, Ret(r, "False", "not_registered"))
            /\ UNCHANGED <<_modules, _is_loaded, _state_lock, nextInst, extensions,
                           sys_modules, disk, bak, cmdCount>>
       ELSE load_module_enter(t, [r EXCEPT !.is_reload = TRUE, !.pre = Snapshot(r.name)])

\* ------------------------------------------------ Registry.unload_module
\* An unload_module that does not put the popped instance back.
FailedUnloadTable_NoPutBack(tbl, n, module) == tbl

\* Registry.unload_module, line 160: the table after a failed unload.
FailedUnloadTable(tbl, n, module) == _replace_loaded_module(tbl, n, module)

\* From the call up to the first suspension: the pop, and the unload of the
\* popped instance up to its resync.
unload_module(t) ==
    LET r == task[t]
        n == r.name
        m == _modules[n]
    IN
    /\ r.pc = "um_call"
    /\ UNCHANGED others
    /\ UNCHANGED <<_is_loaded, nextInst, sys_modules, disk, bak, cmdCount>>
    /\ IF m = NoInst
       THEN /\ task' = Put(task, t, Ret(r, "False", "not_registered"))
            /\ UNCHANGED <<_modules, _state_lock, extensions>>
       ELSE /\ _state_lock[m] = NoTask
            /\ \/ \* unload_extension raises: the instance goes back
                  /\ _modules' = FailedUnloadTable(Put(_modules, n, NoInst), n, m)
                  /\ task' = Put(task, t, Ret([r EXCEPT !.module = m], "False", "unload"))
                  /\ UNCHANGED <<_state_lock, extensions>>
               \/ /\ n \in extensions
                  /\ _modules' = Put(_modules, n, NoInst)
                  /\ extensions' = extensions \ {n}
                  /\ _state_lock' = Put(_state_lock, m, t)
                  /\ task' = Put(task, t, [r EXCEPT !.module = m, !.pc = "um_resync"])

\* PythonModule.unload after its resync.
um_resync(t) ==
    LET r == task[t] IN
    /\ r.pc = "um_resync"
    /\ UNCHANGED others
    /\ _is_loaded' = Put(_is_loaded, r.module, FALSE)
    /\ sys_modules' = _purge_loaded_modules(sys_modules, r.name)
    /\ _state_lock' = Put(_state_lock, r.module, NoTask)
    /\ task' = Put(task, t, Ret(r, "True", "none"))
    /\ UNCHANGED <<_modules, nextInst, extensions, disk, bak, cmdCount>>

\* ---------------------------------------------------- cmd_module_update
Finish(r, o) == [r EXCEPT !.pc = "done", !.outcome = o]
\* The checks before the backup: directory, repository info, up to date.
cmd_module_update(t) ==
    LET r == task[t]
        n == r.name
    IN
    /\ r.pc = "u_call"
    /\ UNCHANGED others
    /\ UNCHANGED <<_modules, _is_loaded, _state_lock, nextInst, extensions,
                   sys_modules, disk, bak, cmdCount>>
    /\ IF disk[n] = NoDir
       THEN task' = Put(task, t, Finish(r, "not_found"))
       ELSE \/ task' = Put(task, t, Finish(r, "no_info"))
            \/ IF disk[n].ver = RemoteVer /\ ~disk[n].dirty
               THEN task' = Put(task, t, Finish(r, "up_to_date"))
               ELSE task' = Put(task, t, [r EXCEPT !.pc = "u_backup", !.pre = Snapshot(n)])

\* The snapshot _create_backup leaves at backup_base: a copy of the tree,
\* with the patch file when the tree has uncommitted changes.
BackupOf(tree) == [tree EXCEPT !.patch = @ \/ tree.dirty]

_create_backup(t) ==
    LET r == task[t]
        n == r.name
    IN
    /\ r.pc = "u_backup"
    /\ UNCHANGED others
    /\ UNCHANGED <<_modules, _is_loaded, _state_lock, nextInst, extensions,
                   sys_modules, disk, cmdCount>>
    /\ \/ /\ disk[n] # NoDir
          /\ bak' = Put(bak, n, BackupOf(disk[n]))
          /\ task' = Put(task, t, [r EXCEPT !.pc = "u_pull",
                                   !.original_commit_id = disk[n].ver,
                                   !.has_local_changes = disk[n].dirty])
       \/ \* the copy or the diff raises
          /\ \E b \in {NoDir} \cup (IF disk[n] = NoDir THEN {} ELSE {disk[n]}) :
               bak' = Put(bak, n, b)
          /\ task' = Put(task, t, Finish(r, "backup_failed"))

\* The trees a checkout of the remote commit can leave: the new content may
\* or may not pass validation; a tree already at the remote commit is left
\* as it is.
CheckedOut(tree) ==
    IF tree.ver = RemoteVer
    THEN {tree}
    ELSE {[tree EXCEPT !.ver = RemoteVer, !.ok = k] : k \in BOOLEAN}

\* pull_repo: the trees it can leave for each status it returns.  Status 3 is
\* returned before the checkout; status 2 before it, when the checkout
\* raises, or after it, when moving a ref raises.
PullTrees(tree, status) ==
    CASE status = 0 -> CheckedOut(tree)
      [] status = 2 -> {tree} \cup CheckedOut(tree)
      [] OTHER -> {tree}

pull_module(t) ==
    LET r == task[t]
        n == r.name
    IN
    /\ r.pc = "u_pull"
    /\ UNCHANGED others
    /\ UNCHANGED <<_modules, _is_loaded, _state_lock, nextInst, extensions,
                   sys_modules, bak, cmdCount>>
    /\ \E status \in {0, 2, 3} :
         /\ disk[n] = NoDir => status = 2
         /\ \E tr \in (IF disk[n] = NoDir THEN {NoDir} ELSE PullTrees(disk[n], status)) :
              disk' = Put(disk, n, tr)
         /\ task' = Put(task, t,
                IF status = 0
                THEN [r EXCEPT !.pull_result = status, !.pc = "u_pip"]
                ELSE [r EXCEPT !.pull_result = status, !.pc = "u_restore",
                               !.failstep = "pull"])

\* run_pip on the module's requirements.txt.
run_pip(t) ==
    LET r == task[t]
        n == r.name
        r1 == [r EXCEPT !.pip_calls = @ + 1]
    IN
    /\ r.pc = "u_pip"
    /\ UNCHANGED others
    /\ UNCHANGED <<_modules, _is_loaded, _state_lock, nextInst, extensions,
                   sys_modules, disk, bak, cmdCount>>
    /\ \/ /\ disk[n] # NoDir
          /\ disk[n].reqs
          /\ task' = Put(task, t, [r1 EXCEPT !.pc = "u_reload"])
       \/ task' = Put(task, t, [r1 EXCEPT !.pc = "u_restore", !.failstep = "deps"])

\* registry.load_module(hikari_client, module, is_reload=True)
update_reload(t) ==
    /\ task[t].pc = "u_reload"
    /\ UNCHANGED others
    /\ load_module_enter(t, [task[t] EXCEPT !.is_reload = TRUE, !.phase = "reload"])

\* repo.reset(original_commit_id, ResetMode.HARD): tracked files go back to
\* the commit, so uncommitted edits are dropped (and with them whatever they
\* did to the content's validity); untracked files stay.
ResetHard(tree, commit) ==
    IF tree.dirty \/ tree.ver # commit
    THEN {[tree EXCEPT !.ver = commit, !.dirty = FALSE, !.ok = k] : k \in BOOLEAN}
    ELSE {tree}

\* The trees a successful _restore_backup can leave: the copy of the
\* snapshot, reset to the recorded commit unless the reset raises.
RestoredTrees(snapshot, commit) == ResetHard(snapshot, commit) \cup {snapshot}

_restore_backup(t) ==
    LET r == task[t]
        n == r.name
        After(ok) ==
            LET r1 == [r EXCEPT !.restore = IF ok THEN "ok" ELSE "fail"] IN
            IF r.failstep = "reload"
            THEN IF ok THEN [r1 EXCEPT !.pc = "u_final"]
                       ELSE [r1 EXCEPT !.pc = "u_cleanup", !.outcome = "critical"]
            ELSE Finish(r1, IF ok THEN "restored" ELSE "critical")
    IN
    /\ r.pc = "u_restore"
    /\ UNCHANGED others
    /\ UNCHANGED <<_modules, _is_loaded, _state_lock, nextInst, extensions,
                   sys_modules, bak, cmdCount>>
    /\ \/ /\ bak[n] # NoDir
          /\ \E tr \in RestoredTrees(bak[n], r.original_commit_id) :
               disk' = Put(disk, n, tr)
          /\ task' = Put(task, t, After(TRUE))
       \/ \* the backup is missing, or rmtree / copytree raises
          /\ \E tr \in {disk[n], NoDir} : disk' = Put(disk, n, tr)
          /\ bak[n] = NoDir => disk' = disk
          /\ task' = Put(task, t, After(FALSE))

\* registry.load_module(hikari_client, module, is_reload=False)
update_final_load(t) ==
    /\ task[t].pc = "u_final"
    /\ UNCHANGED others
    /\ load_module_enter(t, [task[t] EXCEPT !.is_reload = FALSE, !.phase = "final"])

\* _apply_local_patch, when the backup recorded local changes.
_apply_local_patch(t) ==
    LET r == task[t]
        n == r.name
    IN
    /\ r.pc = "u_patch"
    /\ UNCHANGED others
    /\ UNCHANGED <<_modules, _is_loaded, _state_lock, nextInst, extensions,
                   sys_modules, bak, cmdCount>>
    /\ task' = Put(task, t, [r EXCEPT !.pc = "u_cleanup", !.outcome = "updated"])
    /\ IF r.has_local_changes /\ disk[n] # NoDir
       THEN \E applied \in BOOLEAN :
              disk' = Put(disk, n, [disk[n] EXCEPT !.dirty = @ \/ applied])
       ELSE disk' = disk

_cleanup_backup(t) ==
    LET r == task[t] IN
    /\ r.pc = "u_cleanup"
    /\ UNCHANGED others
    /\ bak' = Put(bak, r.name, NoDir)
    /\ task' = Put(task, t, [r EXCEPT !.pc = "done"])
    /\ UNCHANGED <<_modules, _is_loaded, _state_lock, nextInst, extensions,
                   sys_modules, disk, cmdCount>>

\* ------------------------------------------------------------- commands
EntryPc(cmd) ==
    CASE cmd = "load_module" -> "lm_call"
      [] cmd = "reload_module" -> "rm_call"
      [] cmd = "unload_module" -> "um_call"
      [] cmd = "cmd_module_update" -> "u_call"
      [] cmd = "cmd_module_load" -> "ml_call"
      [] cmd = "unload_all" -> "ua_call"
      [] cmd = "cmd_module_unload" -> "mu_call"

RegistryCommands == {"load_module", "reload_module", "unload_module"}

Commands == RegistryCommands \cup {"cmd_module_update"}

\* A task slot is free before its first command and after a command's
\* coroutine has finished (its locals stay readable until the slot is reused).
Free(t) == task[t].pc \in {"idle", "done"}

\* A caller issues one of the commands cmds; it runs on the first free task
\* slot, and the coroutines that have finished by then are discarded.
StartOf(t, cmds) ==
    /\ Free(t)
    /\ UNCHANGED others
    /\ \A u \in Tasks : u < t => ~Free(u)
    /\ cmdCount < MaxCmds
    /\ cmdCount' = cmdCount + 1
    /\ \E cmd \in cmds, n \in Names :
         task' = [u \in Tasks |->
                    IF u = t
                    THEN [Idle EXCEPT !.cmd = cmd, !.name = n, !.pc = EntryPc(cmd)]
                    ELSE IF Free(u) THEN Idle ELSE task[u]]
    /\ UNCHANGED <<_modules, _is_loaded, _state_lock, nextInst, extensions,
                   sys_modules, disk, bak>>

Start(t) == StartOf(t, Commands)

RegistryStep(t) ==
    \/ load_module(t)
    \/ old_unload(t)
    \/ lm_sleep(t)
    \/ validate(t)
    \/ reload_resync(t)
    \/ rollback_resync(t)
    \/ fresh_resync(t)
    \/ fresh_delete(t)
    \/ lm_delete(t)
    \/ reload_module(t)
    \/ unload_module(t)
    \/ um_resync(t)

UpdateStep(t) ==
    \/ cmd_module_update(t)
    \/ _create_backup(t)
    \/ pull_module(t)
    \/ run_pip(t)
    \/ update_reload(t)
    \/ _restore_backup(t)
    \/ update_final_load(t)
    \/ _apply_local_patch(t)
    \/ _cleanup_backup(t)

\* Every command, any interleaving of the tasks.
Next == \E t \in Tasks : Start(t) \/ RegistryStep(t) \/ UpdateStep(t)

Spec == Init /\ [][Next]_vars

\* One command at a time: a command starts only when no other is running.
Alone(t) == \A u \in Tasks \ {t} : Free(u)

StartAlone(t) == Start(t) /\ Alone(t)

NextSeq == \E t \in Tasks : StartAlone(t) \/ RegistryStep(t) \/ UpdateStep(t)

SpecSeq == Init /\ [][NextSeq]_vars

\* The registry's own interface, called from concurrent tasks.
StartRegistry(t) == StartOf(t, RegistryCommands)

NextRegistry == \E t \in Tasks : StartRegistry(t) \/ RegistryStep(t) \/ validate_raises(t)

SpecRegistry == Init /\ [][NextRegistry]_vars

\* The update command only, run by concurrent tasks: the registry steps are
\* those its two load_module calls go through.
StartUpdate(t) == StartOf(t, {"cmd_module_update"})

UpdateRegistryStep(t) ==
    \/ old_unload(t)
    \/ lm_sleep(t)
    \/ validate(t)
    \/ reload_resync(t)
    \/ rollback_resync(t)
    \/ fresh_resync(t)
    \/ fresh_delete(t)
    \/ lm_delete(t)

NextUpdate == \E t \in Tasks : StartUpdate(t) \/ UpdateRegistryStep(t) \/ UpdateStep(t)

\* The updates start on modules that are loaded and whose files have not
\* been edited since they were imported.
InitUpdate ==
    /\ Init
    /\ \A n \in Names : _modules[n] # NoInst /\ sys_modules[n] = CodeOf(disk[n])

SpecUpdate == InitUpdate /\ [][NextUpdate]_vars

\* _create_backup followed immediately by _restore_backup, on every tree a
\* module directory can hold.
InitRoundTrip ==
    /\ disk \in [Names -> Trees]
    /\ _modules = [n \in Names |-> NoInst]
    /\ _is_loaded = [i \in InstIds |-> FALSE]
    /\ _state_lock = [i \in InstIds |-> NoTask]
    /\ nextInst = 1
    /\ extensions = {}
    /\ sys_modules = [n \in Names |-> NoCode]
    /\ bak = [n \in Names |-> NoDir]
    /\ cmdCount = 0
    /\ InitOthers
    /\ \E n \in Names :
         task = [t \in Tasks |->
                   IF t = 1
                   THEN [Idle EXCEPT !.cmd = "round_trip", !.name = n,
                                     !.pc = "u_backup",
                                     !.pre = [Idle.pre EXCEPT !.tree = disk[n]]]
                   ELSE Idle]

\* The restore is called as soon as the backup has returned.
restore_after_backup(t) ==
    /\ task[t].cmd = "round_trip"
    /\ task[t].pc = "u_pull"
    /\ UNCHANGED others
    /\ task' = Put(task, t, [task[t] EXCEPT !.pc = "u_restore", !.failstep = "round_trip"])
    /\ UNCHANGED <<_modules, _is_loaded, _state_lock, nextInst, extensions,
                   sys_modules, disk, bak, cmdCount>>

NextRoundTrip ==
    \E t \in Tasks : _create_backup(t) \/ restore_after_backup(t) \/ _restore_backup(t)

SpecRoundTrip == InitRoundTrip /\ [][NextRoundTrip]_vars

\* ------------------------------------------------ cmd_module_load
\* cmd_module_load up to its first suspension: the URL parses to the name of
\* the module; a directory of that name ends the command.
cmd_module_load(t) ==
    LET r == task[t] IN
    /\ r.pc = "ml_call"
    /\ UNCHANGED others
    /\ task' = Put(task, t, IF disk[r.name] # NoDir THEN Finish(r, "exists")
                            ELSE [r EXCEPT !.pc = "ml_check"])
    /\ UNCHANGED <<_modules, _is_loaded, _state_lock, nextInst, extensions,
                   sys_modules, disk, bak, cmdCount>>

\* check_remote_module has answered; after the announcement clone_repo is
\* handed to a thread.
check_remote_module(t) ==
    LET r == task[t] IN
    /\ r.pc = "ml_check"
    /\ UNCHANGED others
    /\ \/ task' = Put(task, t, [r EXCEPT !.pc = "ml_clone"])
       \/ task' = Put(task, t, Finish(r, "remote_invalid"))
    /\ UNCHANGED <<_modules, _is_loaded, _state_lock, nextInst, extensions,
                   sys_modules, disk, bak, cmdCount>>

\* A fresh clone of the remote's commit.
Cloned == {tree \in Trees : tree.ver = RemoteVer /\ ~tree.dirty /\ ~tree.patch}

\* clone_repo in its thread: clone_repository raises when the clone fails or
\* the directory is there already, and the directory is then removed.
clone_repo(t) ==
    LET r == task[t]
        n == r.name
    IN
    /\ r.pc = "ml_clone"
    /\ UNCHANGED others
    /\ UNCHANGED <<_modules, _is_loaded, _state_lock, nextInst, extensions,
                   sys_modules, bak, cmdCount>>
    /\ \/ /\ disk[n] = NoDir
          /\ \E tree \in Cloned : disk' = Put(disk, n, tree)
          /\ task' = Put(task, t, [r EXCEPT !.pc = "ml_pip"])
       \/ /\ disk' = Put(disk, n, NoDir)
          /\ task' = Put(task, t, Finish(r, "clone_failed"))

\* _install_requirements_if_present: nothing to do without requirements.txt;
\* a failed installation deletes the module.
_install_requirements_if_present(t) ==
    LET r == task[t]
        n == r.name
    IN
    /\ r.pc = "ml_pip"
    /\ UNCHANGED others
    /\ UNCHANGED <<_modules, _is_loaded, _state_lock, nextInst, extensions,
                   sys_modules, bak, cmdCount>>
    /\ IF disk[n] = NoDir \/ ~disk[n].reqs
       THEN /\ task' = Put(task, t, [r EXCEPT !.pc = "lm_call"])
            /\ UNCHANGED disk
       ELSE \/ /\ task' = Put(task, t, [r EXCEPT !.pc = "lm_call", !.pip_calls = @ + 1])
               /\ UNCHANGED disk
            \/ /\ disk' \in delete_module(disk, n)
               /\ task' = Put(task, t, Finish([r EXCEPT !.pip_calls = @ + 1], "deps_failed"))

LoadStep(t) ==
    \/ cmd_module_load(t)
    \/ check_remote_module(t)
    \/ clone_repo(t)
    \/ _install_requirements_if_present(t)
    \/ load_module(t)
    \/ validate(t)
    \/ validate_raises(t)
    \/ fresh_resync(t)
    \/ fresh_delete(t)
    \/ lm_delete(t)

StartLoad(t) == StartOf(t, {"cmd_module_load"})

NextLoad == \E t \in Tasks : StartLoad(t) \/ LoadStep(t)

\* No module has been cloned yet.
InitLoad ==
    /\ InitIdleHost
    /\ repo = NoRepo
    /\ pulled = NoPull

SpecLoad == InitLoad /\ [][NextLoad]_vars

\* ------------------------------------------------- Registry.unload_all
\* The modules a host can have registered when unload_all is called.
MaxModules == 3

AllModuleNames == <<"m1", "m2", "m3", "m4", "m5">>

ModuleNames == {AllModuleNames[i] : i \in 1..MaxModules}

ModuleInst == [n \in ModuleNames |-> CHOOSE i \in 1..MaxModules : AllModuleNames[i] = n]

\* The orders in which a dict can list the keys S.
Orders(S) == {q \in [1..Cardinality(S) -> S] : \A i, j \in 1..Cardinality(S) : i # j => q[i] # q[j]}

\* Registry._iter_module_names: tuple(self._modules.keys())
_iter_module_names(tbl) == Orders({n \in DOMAIN tbl : tbl[n] # NoInst})

\* An unload_all that gives up at the first module that fails to unload.
ContinuesAfter_StopsOnFailure(ok) == ok

\* Registry.unload_all, lines 190-191: the loop ignores unload_module's result.
ContinuesAfter(ok) == TRUE

\* Registry.unload_all, line 189: the names are listed once, before the loop.
unload_all(t) ==
    LET r == task[t] IN
    /\ r.pc = "ua_call"
    /\ UNCHANGED others
    /\ \E names \in _iter_module_names(_modules) :
         task' = Put(task, t, [r EXCEPT !.modules = names, !.index = 1, !.pc = "ua_next"])
    /\ UNCHANGED <<_modules, _is_loaded, _state_lock, nextInst, extensions,
                   sys_modules, disk, bak, cmdCount>>

\* Registry.unload_all, lines 190-191: the next name of the list is handed to
\* unload_module; the call returns after the last one.
unload_all_next(t) ==
    LET r == task[t] IN
    /\ r.pc = "ua_next"
    /\ UNCHANGED others
    /\ IF r.index > Len(r.modules) \/ (r.index > 1 /\ ~ContinuesAfter(r.ret = "True"))
       THEN task' = Put(task, t, [r EXCEPT !.pc = "done", !.ret = "None"])
       ELSE task' = Put(task, t, [r EXCEPT !.name = r.modules[r.index],
                                           !.index = @ + 1, !.pc = "um_call"])
    /\ UNCHANGED <<_modules, _is_loaded, _state_lock, nextInst, extensions,
                   sys_modules, disk, bak, cmdCount>>

\* unload_all called on a host with any set of the modules loaded, nothing
\* else calling the registry.
InitUnloadAll ==
    /\ InitOthers
    /\ \E loadedNames \in SUBSET ModuleNames :
         /\ _modules = [n \in ModuleNames |-> IF n \in loadedNames THEN ModuleInst[n] ELSE NoInst]
         /\ _is_loaded = [i \in InstIds |-> \E n \in loadedNames : ModuleInst[n] = i]
         /\ extensions = loadedNames
         /\ sys_modules = [n \in ModuleNames |->
                IF n \in loadedNames THEN CodeOf(InitTree(FALSE, FALSE, TRUE)) ELSE NoCode]
    /\ disk = [n \in ModuleNames |-> InitTree(FALSE, FALSE, TRUE)]
    /\ bak = [n \in ModuleNames |-> NoDir]
    /\ _state_lock = [i \in InstIds |-> NoTask]
    /\ nextInst = MaxModules + 1
    /\ task = [t \in Tasks |-> Idle]
    /\ cmdCount = 0

StartUnloadAll(t) == StartOf(t, {"unload_all"}) /\ Alone(t)

NextUnloadAll ==
    \E t \in Tasks :
        \/ StartUnloadAll(t)
        \/ unload_all(t)
        \/ unload_all_next(t)
        \/ unload_module(t)
        \/ um_resync(t)

SpecUnloadAll == InitUnloadAll /\ [][NextUnloadAll]_vars

\* ---------------------------------- cmd_module_unload (commands/module)
\* cmd_module_unload up to the announcement: the directory must be there and
\* be a repository of its own.
cmd_module_unload(t) ==
    LET r == task[t]
        n == r.name
    IN
    /\ r.pc = "mu_call"
    /\ UNCHANGED others
    /\ UNCHANGED <<_modules, _is_loaded, _state_lock, nextInst, extensions,
                   sys_modules, disk, bak, cmdCount>>
    /\ IF disk[n] = NoDir
       THEN task' = Put(task, t, Finish(r, "not_found"))
       ELSE \/ task' = Put(task, t, Finish(r, "invalid_repo"))
            \/ task' = Put(task, t, [r EXCEPT !.pc = "mu_unload"])

\* After the announcement: registry.unload_module is awaited when the module
\* is loaded, and skipped otherwise.
unload_if_loaded(t) ==
    LET r == task[t] IN
    /\ r.pc = "mu_unload"
    /\ UNCHANGED others
    /\ UNCHANGED <<_modules, _is_loaded, _state_lock, nextInst, extensions,
                   sys_modules, disk, bak, cmdCount>>
    /\ task' = Put(task, t, [r EXCEPT !.pc = IF is_module_loaded(r.name)
                                             THEN "um_call" ELSE "mu_delete"])

\* delete_module in its thread, whatever unload_module returned, and the
\* replies that follow.
unload_delete(t) ==
    LET r == task[t] IN
    /\ r.pc = "mu_delete"
    /\ UNCHANGED others
    /\ UNCHANGED <<_modules, _is_loaded, _state_lock, nextInst, extensions,
                   sys_modules, bak, cmdCount>>
    /\ disk' \in delete_module(disk, r.name)
    /\ task' = Put(task, t, Finish(r, IF disk'[r.name] = NoDir THEN "deleted"
                                      ELSE "delete_failed"))

UnloadStep(t) ==
    \/ cmd_module_unload(t)
    \/ unload_if_loaded(t)
    \/ unload_delete(t)
    \/ unload_module(t)
    \/ um_resync(t)

\* Unload commands and reloads, one call at a time.
StartUnload(t) == StartOf(t, {"cmd_module_unload", "reload_module"}) /\ Alone(t)

NextUnload ==
    \E t \in Tasks :
        \/ StartUnload(t)
        \/ UnloadStep(t)
        \/ reload_module(t)
        \/ old_unload(t)
        \/ lm_sleep(t)
        \/ validate(t)
        \/ reload_resync(t)
        \/ rollback_resync(t)

SpecUnload == Init /\ [][NextUnload]_vars

\* ------------------------------------------- the Registry's table lock
\* Registry._lock, an asyncio.Lock: the task that holds it, if any.
_lock == IF \E t \in Tasks : task[t].locked
         THEN CHOOSE t \in Tasks : task[t].locked
         ELSE NoTask

\* A table section that keeps the lock when it is left.
AfterTableSection_KeepsLock(held) == held

\* The end of an `async with self._lock` block releases the lock.
AfterTableSection(held) == FALSE

\* The positions inside an `async with self._lock` block: the task runs there,
\* without an await, so no other task of the loop runs meanwhile.
TablePcs == {"k_load_table", "k_put_table", "k_pop_table", "k_get_table"}

\* The positions where a task is suspended in a slow operation: Module.load,
\* Module.unload, the settle delay, the operator notification and the
\* directory deletion in a thread.
SlowPcs == {"k_old_unload", "k_sleep", "k_load", "k_unload", "k_notify", "k_delete"}

\* Task t may run: no other task is in the middle of a table section.
MayRun(t) == \A u \in Tasks \ {t} : task[u].pc \notin TablePcs

\* What a step of the lock view leaves alone.
LockFrame ==
    /\ UNCHANGED others
    /\ UNCHANGED <<_is_loaded, _state_lock, extensions, sys_modules, bak, cmdCount>>

\* async with self._lock: the lock is taken when it is free; the task waits
\* where it is otherwise.
lock_acquire(t) ==
    LET r == task[t] IN
    /\ MayRun(t)
    /\ r.pc \in {"k_load_acquire", "k_put_acquire", "um_call", "rm_call"}
    /\ r.pc = "um_call" => r.cmd = "unload_module"
    /\ r.pc = "rm_call" => r.cmd = "reload_module"
    /\ _lock = NoTask
    /\ task' = Put(task, t, [r EXCEPT !.locked = TRUE,
                                      !.pc = CASE r.pc = "k_load_acquire" -> "k_load_table"
                                               [] r.pc = "k_put_acquire" -> "k_put_table"
                                               [] r.pc = "um_call" -> "k_pop_table"
                                               [] r.pc = "rm_call" -> "k_get_table"])
    /\ LockFrame
    /\ UNCHANGED <<_modules, nextInst, disk>>

\* Registry._create_module at the start of load_module: None when the
\* directory is missing, a new instance otherwise.
create_module(t, r) ==
    IF disk[r.name] = NoDir
    THEN /\ task' = Put(task, t, Ret(r, "False", "nomodule"))
         /\ UNCHANGED nextInst
    ELSE /\ nextInst <= MaxInst
         /\ nextInst' = nextInst + 1
         /\ task' = Put(task, t, [r EXCEPT !.module = nextInst, !.pc = "k_load_acquire"])

\* Registry.load_module, line 105.
load_module_call(t) ==
    LET r == task[t] IN
    /\ MayRun(t)
    /\ r.pc = "lm_call"
    /\ r.cmd = "load_module"
    /\ create_module(t, r)
    /\ LockFrame
    /\ UNCHANGED <<_modules, disk>>

\* Registry.load_module, lines 110-116: the locked table section.
load_module_table(t) ==
    LET r == task[t]
        old == _modules[r.name]
        out == [r EXCEPT !.locked = AfterTableSection(@), !.old_module = old]
    IN
    /\ r.pc = "k_load_table"
    /\ LockFrame
    /\ UNCHANGED <<nextInst, disk>>
    /\ IF IsDuplicateLoad(old, r.is_reload)
       THEN /\ task' = Put(task, t, Ret(out, "False", "duplicate"))
            /\ UNCHANGED _modules
       ELSE IF r.is_reload /\ old # NoInst
       THEN /\ _modules' = Put(_modules, r.name, NoInst)
            /\ task' = Put(task, t, [out EXCEPT !.pc = "k_old_unload"])
       ELSE /\ task' = Put(task, t, [out EXCEPT !.pc = "k_load"])
            /\ UNCHANGED _modules

\* await old_module.unload(), whatever its result, then the settle delay.
old_module_unload(t) ==
    LET r == task[t] IN
    /\ MayRun(t)
    /\ r.pc = "k_old_unload"
    /\ task' = Put(task, t, [r EXCEPT !.pc = "k_sleep"])
    /\ LockFrame
    /\ UNCHANGED <<_modules, nextInst, disk>>

\* await asyncio.sleep(_RELOAD_DELAY_SECONDS)
settle_delay(t) ==
    LET r == task[t] IN
    /\ MayRun(t)
    /\ r.pc = "k_sleep"
    /\ task' = Put(task, t, [r EXCEPT !.pc = "k_load"])
    /\ LockFrame
    /\ UNCHANGED <<_modules, nextInst, disk>>

\* await module.load(...) returns: on success the new instance is to be
\* registered; a failed fresh load notifies and deletes; a failed reload puts
\* the old instance back.
module_load_returns(t) ==
    LET r == task[t] IN
    /\ MayRun(t)
    /\ r.pc = "k_load"
    /\ LockFrame
    /\ UNCHANGED <<_modules, nextInst, disk>>
    /\ \/ task' = Put(task, t, [r EXCEPT !.put = r.module, !.pc = "k_put_acquire"])
       \/ task' = Put(task, t,
                      IF ~r.is_reload THEN [r EXCEPT !.pc = "k_notify"]
                      ELSE IF r.old_module # NoInst
                      THEN [r EXCEPT !.put = r.old_module, !.pc = "k_put_acquire"]
                      ELSE Ret(r, "False", "validate"))

\* await self._notify_load_failure(...)
notify_load_failure(t) ==
    LET r == task[t] IN
    /\ MayRun(t)
    /\ r.pc = "k_notify"
    /\ task' = Put(task, t, [r EXCEPT !.pc = "k_delete"])
    /\ LockFrame
    /\ UNCHANGED <<_modules, nextInst, disk>>

\* await asyncio.to_thread(delete_module, module_name); return False
delete_module_thread(t) ==
    LET r == task[t] IN
    /\ MayRun(t)
    /\ r.pc = "k_delete"
    /\ disk' \in delete_module(disk, r.name)
    /\ task' = Put(task, t, Ret(r, "False", "validate"))
    /\ LockFrame
    /\ UNCHANGED <<_modules, nextInst>>

\* Registry._replace_loaded_module, lines 76-77, and the return that follows
\* it: True when the new instance was registered.
put_table(t) ==
    LET r == task[t]
        out == [r EXCEPT !.locked = AfterTableSection(@)]
    IN
    /\ r.pc = "k_put_table"
    /\ _modules' = _replace_loaded_module(_modules, r.name, r.put)
    /\ task' = Put(task, t, IF r.put = r.module THEN Ret(out, "True", "none")
                            ELSE Ret(out, "False", "put_back"))
    /\ LockFrame
    /\ UNCHANGED <<nextInst, disk>>

\* Registry._pop_module, lines 80-81, and unload_module's test of its result.
pop_table(t) ==
    LET r == task[t]
        m == _modules[r.name]
        out == [r EXCEPT !.locked = AfterTableSection(@), !.old_module = m]
    IN
    /\ r.pc = "k_pop_table"
    /\ _modules' = Put(_modules, r.name, NoInst)
    /\ task' = Put(task, t, IF m = NoInst THEN Ret(out, "False", "not_registered")
                            ELSE [out EXCEPT !.pc = "k_unload"])
    /\ LockFrame
    /\ UNCHANGED <<nextInst, disk>>

\* await module.unload() returns in unload_module: a failure puts the instance
\* back.
module_unload_returns(t) ==
    LET r == task[t] IN
    /\ MayRun(t)
    /\ r.pc = "k_unload"
    /\ LockFrame
    /\ UNCHANGED <<_modules, nextInst, disk>>
    /\ \/ task' = Put(task, t, Ret(r, "True", "none"))
       \/ task' = Put(task, t, [r EXCEPT !.put = r.old_module, !.pc = "k_put_acquire"])

\* Registry._get_module, lines 84-85, in reload_module, which goes on into
\* load_module(is_reload=True) when the name is registered.
get_table(t) ==
    LET r == task[t]
        out == [r EXCEPT !.locked = AfterTableSection(@), !.is_reload = TRUE]
    IN
    /\ r.pc = "k_get_table"
    /\ LockFrame
    /\ UNCHANGED <<_modules, disk>>
    /\ IF ~IsRegistered(_modules, r.name)
       THEN /\ task' = Put(task, t, Ret(out, "False", "not_registered"))
            /\ UNCHANGED nextInst
       ELSE create_module(t, out)

LockStep(t) ==
    \/ lock_acquire(t)
    \/ load_module_call(t)
    \/ load_module_table(t)
    \/ old_module_unload(t)
    \/ settle_delay(t)
    \/ module_load_returns(t)
    \/ notify_load_failure(t)
    \/ delete_module_thread(t)
    \/ put_table(t)
    \/ pop_table(t)
    \/ module_unload_returns(t)
    \/ get_table(t)

StartLock(t) == StartRegistry(t) /\ \A u \in Tasks : task[u].pc \notin TablePcs

NextLock == \E t \in Tasks : StartLock(t) \/ LockStep(t)

SpecLock == Init /\ [][NextLock]_vars

\* ------------------------------------------------ the hot-reload watcher
\* The watcher after Jurigged.start: running, or not started because jurigged
\* is not available.  Nothing is pending and no drain task exists.
InitWatcher ==
    /\ InitHost
    /\ repo = NoRepo
    /\ pulled = NoPull
    /\ _watcher \in BOOLEAN
    /\ notifier = IF _watcher THEN "running" ELSE "stopped"
    /\ _pending = {}
    /\ _drain_task = FALSE
    /\ drain = NoDrain
    /\ stop = "idle"
    /\ seen = NoSeen
    /\ _cache = NoCache

\* A drain task that stop() does not cancel.
NeedsCancel_Never(has_task, d) == FALSE

\* Task.done(): the coroutine has returned or was cancelled.
TaskDone(d) == d.st \in {"done", "cancelled"}

\* drain_task is not None and not drain_task.done()
NeedsCancel(has_task, d) == has_task /\ ~TaskDone(d)

\* A drain loop that an exception of _reload_target ends.
AfterRaise_LeavesLoop(todo) == {}

\* _drain_targets, lines 262-264: contextlib.suppress(Exception) is inside the
\* loop, so after an exception the loop goes on with the targets that are left.
AfterRaise(todo) == todo

\* The number of targets the drain had handed to _reload_target when one of
\* them first raised.
RaisedAt(d) ==
    IF d.raised # -1 THEN d.raised
    ELSE Cardinality({x \in Targets : d.attempts[x] > 0})

\* The drain task runs from one await to the next without giving up the loop:
\* between taking the pending set, or the return of an awaited call, and its
\* next await or its end, no other callback or task of the loop runs.
LoopFree == drain.st # "running"

\* A file under the extensions directory changes: _on_postrun classifies it and
\* _enqueue_target runs on the loop.  The notification source delivers change
\* callbacks only while it runs.
_enqueue_target(x) ==
    /\ notifier = "running"
    /\ LoopFree
    /\ seen.changes < MaxChanges
    /\ _pending' = _pending \cup {x}
    /\ IF ~_drain_task \/ TaskDone(drain)
       THEN /\ _drain_task' = TRUE
            /\ drain' = [NoDrain EXCEPT !.st = "sleeping", !.wake = Debounce]
       ELSE UNCHANGED <<_drain_task, drain>>
    /\ seen' = [seen EXCEPT !.changes = @ + 1, !.since_change = 0]
    /\ UNCHANGED <<_cache, repo, pulled, _watcher, notifier, stop>>
    /\ UNCHANGED <<_modules, _is_loaded, _state_lock, nextInst, extensions,
                   sys_modules, disk, bak, task, cmdCount>>

\* One tick of the loop's clock.
Tick ==
    /\ \/ drain.st = "sleeping" /\ drain.wake > 0
       \/ seen.since_change \in 0..(Debounce - 1)
    /\ drain' = IF drain.st = "sleeping" /\ drain.wake > 0
                THEN [drain EXCEPT !.wake = @ - 1] ELSE drain
    /\ seen' = IF seen.since_change \in 0..(Debounce - 1)
               THEN [seen EXCEPT !.since_change = @ + 1] ELSE seen
    /\ UNCHANGED <<_cache, repo, pulled, _watcher, notifier, _pending, _drain_task, stop>>
    /\ UNCHANGED <<_modules, _is_loaded, _state_lock, nextInst, extensions,
                   sys_modules, disk, bak, task, cmdCount>>

\* _drain_targets: the sleep is over; take the pending set and clear it.
_drain_targets ==
    /\ drain.st = "sleeping"
    /\ drain.wake = 0
    /\ drain' = [drain EXCEPT !.st = "running", !.todo = _pending, !.taken = _pending]
    /\ _pending' = {}
    /\ UNCHANGED <<_cache, repo, pulled, _watcher, notifier, _drain_task, stop, seen>>
    /\ UNCHANGED <<_modules, _is_loaded, _state_lock, nextInst, extensions,
                   sys_modules, disk, bak, task, cmdCount>>

\* for target in targets: _reload_target of a module target, which is
\* registry.reload_module up to its first suspension.
_reload_target(t) ==
    /\ drain.st = "running"
    /\ Free(t)
    /\ \A u \in Tasks : u < t => ~Free(u)
    /\ UNCHANGED <<_cache, repo, pulled, _watcher, notifier, _pending, _drain_task, stop>>
    /\ \E x \in drain.todo :
         LET r == [Idle EXCEPT !.cmd = "reload_module", !.name = x.name, !.pc = "rm_call"]
         IN
         /\ x.kind = "module"
         /\ seen' = [seen EXCEPT !.triggers = @ + 1]
         /\ IF _modules[x.name] = NoInst
            THEN /\ task' = Put(task, t, Ret(r, "False", "not_registered"))
                 /\ UNCHANGED <<_modules, _is_loaded, _state_lock, nextInst,
                                extensions, sys_modules, disk, bak, cmdCount>>
            ELSE load_module_enter(t, [r EXCEPT !.is_reload = TRUE,
                                                !.pre = Snapshot(x.name)])
         /\ \* a reload_module that returns without awaiting does not suspend
            drain' = IF task'[t].pc = "done"
                     THEN [drain EXCEPT !.todo = @ \ {x}, !.attempts[x] = @ + 1]
                     ELSE [drain EXCEPT !.st = "reloading", !.todo = @ \ {x}, !.slot = t,
                                        !.attempts[x] = @ + 1]

\* _reload_target of an extension target: unload_extension, load_extension,
\* then the await of resync_commands, unless load_extension raises.
reload_extension_target ==
    /\ drain.st = "running"
    /\ \E x \in drain.todo :
         /\ x.kind = "extension"
         /\ seen' = [seen EXCEPT !.triggers = @ + 1]
         /\ \/ drain' = [drain EXCEPT !.st = "resync", !.todo = @ \ {x},
                                       !.attempts[x] = @ + 1]
            \/ drain' = [drain EXCEPT !.todo = AfterRaise(@ \ {x}),
                                       !.attempts[x] = @ + 1,
                                       !.raised = RaisedAt(drain)]
    /\ UNCHANGED <<_cache, repo, pulled, _watcher, notifier, _pending, _drain_task, stop>>
    /\ UNCHANGED <<_modules, _is_loaded, _state_lock, nextInst, extensions,
                   sys_modules, disk, bak, task, cmdCount>>

\* No target is left: the drain task is done.
drain_done ==
    /\ drain.st = "running"
    /\ drain.todo = {}
    /\ drain' = [drain EXCEPT !.st = "done"]
    /\ UNCHANGED <<_cache, repo, pulled, _watcher, notifier, _pending, _drain_task, stop, seen>>
    /\ UNCHANGED <<_modules, _is_loaded, _state_lock, nextInst, extensions,
                   sys_modules, disk, bak, task, cmdCount>>

\* The awaited reload_module or resync_commands has returned.
reload_returned ==
    /\ \/ drain.st = "reloading" /\ task[drain.slot].pc = "done"
       \/ drain.st = "resync"
    /\ drain' = IF drain.st = "reloading" /\ task[drain.slot].ret = "raised"
                THEN [drain EXCEPT !.st = "running", !.slot = NoTask,
                                   !.todo = AfterRaise(@), !.raised = RaisedAt(drain)]
                ELSE [drain EXCEPT !.st = "running", !.slot = NoTask]
    /\ UNCHANGED <<_cache, repo, pulled, _watcher, notifier, _pending, _drain_task, stop, seen>>
    /\ UNCHANGED <<_modules, _is_loaded, _state_lock, nextInst, extensions,
                   sys_modules, disk, bak, task, cmdCount>>

\* Jurigged.stop up to its first await.
stop_call ==
    /\ stop = "idle"
    /\ LoopFree
    /\ _watcher' = FALSE
    /\ stop' = IF _watcher THEN "stopping" ELSE "returned"
    /\ UNCHANGED <<_cache, repo, pulled, notifier, _pending, _drain_task, drain, seen>>
    /\ UNCHANGED <<_modules, _is_loaded, _state_lock, nextInst, extensions,
                   sys_modules, disk, bak, task, cmdCount>>

\* The thread of asyncio.to_thread runs the watcher's stop.
stop_fn ==
    /\ stop = "stopping"
    /\ notifier = "running"
    /\ notifier' = "stopped"
    /\ UNCHANGED <<_cache, repo, pulled, _watcher, _pending, _drain_task, drain, stop, seen>>
    /\ UNCHANGED <<_modules, _is_loaded, _state_lock, nextInst, extensions,
                   sys_modules, disk, bak, task, cmdCount>>

\* CancelledError is raised in the drain task where it is suspended: in the
\* sleep, or inside the Registry call it awaits, which nothing in the Registry
\* catches; the locks held by that call are released on the way out.
Cancelled(d) == [d EXCEPT !.st = "cancelled", !.slot = NoTask]

\* stop resumes after the thread: it cancels a drain task that is not done.
stop_cancel ==
    /\ stop = "stopping"
    /\ notifier = "stopped"
    /\ LoopFree
    /\ _drain_task' = FALSE
    /\ UNCHANGED <<_cache, repo, pulled, _watcher, notifier, _pending, seen>>
    /\ UNCHANGED <<_modules, _is_loaded, nextInst, extensions,
                   sys_modules, disk, bak, cmdCount>>
    /\ IF NeedsCancel(_drain_task, drain)
       THEN /\ stop' = "awaiting"
            /\ drain' = Cancelled(drain)
            /\ IF drain.slot # NoTask /\ task[drain.slot].pc # "done"
               THEN /\ task' = Put(task, drain.slot,
                                   [task[drain.slot] EXCEPT !.pc = "done", !.ret = "cancelled"])
                    /\ _state_lock' = [i \in InstIds |->
                           IF _state_lock[i] = drain.slot THEN NoTask ELSE _state_lock[i]]
               ELSE UNCHANGED <<task, _state_lock>>
       ELSE /\ stop' = "returned"
            /\ UNCHANGED <<drain, task, _state_lock>>

\* await drain_task ends; stop returns.
stop_return ==
    /\ stop = "awaiting"
    /\ LoopFree
    /\ stop' = "returned"
    /\ UNCHANGED <<_cache, repo, pulled, _watcher, notifier, _pending, _drain_task, drain, seen>>
    /\ UNCHANGED <<_modules, _is_loaded, _state_lock, nextInst, extensions,
                   sys_modules, disk, bak, task, cmdCount>>

\* The steps of a reload_module that the watcher started.
WatcherRegistryStep(t) ==
    \/ old_unload(t) \/ lm_sleep(t) \/ validate(t) \/ validate_raises(t)
    \/ reload_resync(t) \/ rollback_resync(t)

NextWatcher ==
    \/ \E x \in Targets : _enqueue_target(x)
    \/ Tick
    \/ _drain_targets
    \/ \E t \in Tasks : _reload_target(t)
    \/ reload_extension_target
    \/ drain_done
    \/ reload_returned
    \/ stop_call \/ stop_fn \/ stop_cancel \/ stop_return
    \/ \E t \in Tasks : WatcherRegistryStep(t)

SpecWatcher == InitWatcher /\ [][NextWatcher]_vars

\* The event loop runs every task and callback that is ready, the thread of
\* to_thread runs, and the clock advances; file changes and the call of stop
\* are up to the environment.
WatcherFairness ==
    /\ WF_vars(Tick)
    /\ WF_vars(_drain_targets)
    /\ WF_vars(\E t \in Tasks : _reload_target(t))
    /\ WF_vars(reload_extension_target)
    /\ WF_vars(drain_done)
    /\ WF_vars(reload_returned)
    /\ WF_vars(stop_fn)
    /\ WF_vars(stop_cancel)
    /\ WF_vars(stop_return)
    /\ WF_vars(\E t \in Tasks : WatcherRegistryStep(t))

SpecWatcherFair == SpecWatcher /\ WatcherFairness

\* ------------------------------------------------ pull_repo (git/utils.py)
\* The commit HEAD resolves to.
HeadCommit(r) == IF r.head = "default" THEN r.branch ELSE r.other

\* _fetch_origin: a successful fetch moves refs/remotes/origin/<default> to the
\* remote's commit; a failed one is suppressed and leaves the reference as it
\* was.
_fetch_origin(r) ==
    {[fetched |-> "ok", repo |-> [r EXCEPT !.remote = r.upstream]],
     [fetched |-> "failed", repo |-> r]}

\* resolve_local_ref: the local branch, created at the remote reference's
\* target when it is missing; None when the creation fails too.
resolve_local_ref(r) ==
    IF r.branch # NoCommit
    THEN {[found |-> TRUE, repo |-> r]}
    ELSE {[found |-> TRUE, repo |-> [r EXCEPT !.branch = r.remote]],
          [found |-> FALSE, repo |-> r]}

\* The try block of pull_repo: checkout_tree, local_ref.set_target and
\* repo.head.set_target in turn, each of which may raise.
Advance(r) ==
    LET r1 == [r EXCEPT !.worktree = r.remote]
        r2 == [r1 EXCEPT !.branch = r.remote]
        r3 == IF r.head = "default" THEN r2 ELSE [r2 EXCEPT !.other = r.remote]
    IN {[status |-> 2, failed |-> "checkout", repo |-> r],
        [status |-> 2, failed |-> "set_target", repo |-> r1],
        [status |-> 2, failed |-> "head", repo |-> r2],
        [status |-> 0, failed |-> "none", repo |-> r3]}

\* pull_repo: every status it can return on repository r, with the repository
\* it leaves, whether the fetch succeeded and the step that failed.
pull_repo(r) ==
    IF ~r.opens
    THEN {[status |-> 2, failed |-> "open", fetched |-> "none", repo |-> r]}
    ELSE IF ~r.origin
    THEN {[status |-> 2, failed |-> "origin", fetched |-> "none", repo |-> r]}
    ELSE UNION {
        IF f.repo.remote = NoCommit
        THEN {[status |-> 3, failed |-> "remote_ref", fetched |-> f.fetched, repo |-> f.repo]}
        ELSE UNION {
            IF ~l.found
            THEN {[status |-> 3, failed |-> "local_ref", fetched |-> f.fetched,
                   repo |-> l.repo]}
            ELSE IF l.repo.branch = l.repo.remote
            THEN {[status |-> 0, failed |-> "none", fetched |-> f.fetched,
                   repo |-> l.repo]}
            ELSE {[status |-> a.status, failed |-> a.failed, fetched |-> f.fetched,
                   repo |-> a.repo] : a \in Advance(l.repo)}
            : l \in resolve_local_ref(f.repo)}
        : f \in _fetch_origin(r)}

\* pull_repo is called once on any repository directory; no module is cloned.
InitPull ==
    /\ repo \in Repos
    /\ pulled = NoPull
    /\ _watcher = FALSE
    /\ notifier = "stopped"
    /\ _pending = {}
    /\ _drain_task = FALSE
    /\ drain = NoDrain
    /\ stop = "idle"
    /\ seen = NoSeen
    /\ _cache = NoCache
    /\ _modules = [n \in Names |-> NoInst]
    /\ _is_loaded = [i \in InstIds |-> FALSE]
    /\ _state_lock = [i \in InstIds |-> NoTask]
    /\ nextInst = 1
    /\ extensions = {}
    /\ sys_modules = [n \in Names |-> NoCode]
    /\ disk = [n \in Names |-> NoDir]
    /\ bak = [n \in Names |-> NoDir]
    /\ task = [t \in Tasks |-> Idle]
    /\ cmdCount = 0

call_pull_repo ==
    /\ pulled = NoPull
    /\ \E o \in pull_repo(repo) :
         /\ repo' = o.repo
         /\ pulled' = [status |-> o.status, failed |-> o.failed,
                       fetched |-> o.fetched, before |-> repo]
    /\ UNCHANGED <<_watcher, notifier, _pending, _drain_task, drain, stop, seen, _cache>>
    /\ UNCHANGED <<_modules, _is_loaded, _state_lock, nextInst, extensions,
                   sys_modules, disk, bak, task, cmdCount>>

NextPull == call_pull_repo

SpecPull == InitPull /\ [][NextPull]_vars

\* ------------------------------------------------ the repository read-model
MaxFiles == 2

\* A module directory as get_module_info reads it, after the fetch: whether
\* discover_repository finds a repository of its own there, whether it opens
\* and has a remote origin with a URL, what the remote reference and HEAD lead
\* to (a commit, an object that is no commit or is missing, no reference at
\* all), and the number of files that differ between the two commits.
InfoRepos ==
    [found : BOOLEAN, opens : BOOLEAN, origin : BOOLEAN, url : BOOLEAN,
     remote_ref : {"commit", "unresolved", "none"},
     head : {"commit", "unresolved", "unborn"},
     files_changed : 0..MaxFiles]

\* Python's None, and the two ways a call ends.
None == [none |-> TRUE]
Returns(v) == [raised |-> "none", value |-> v]
Raises(e) == [raised |-> e, value |-> None]

\* get_repo_commits: None, or (head_commit, remote_commit, modifications) with
\* modifications -1 when a commit is not resolved; repo.head raises on a HEAD
\* that points at no commit.
get_repo_commits(r) ==
    IF ~r.opens \/ ~r.origin \/ r.remote_ref = "none"
    THEN Returns(None)
    ELSE IF r.head = "unborn"
    THEN Raises("GitError")
    ELSE Returns([head_commit |-> r.head = "commit",
                  remote_commit |-> r.remote_ref = "commit",
                  modifications |-> IF r.head = "commit" /\ r.remote_ref = "commit"
                                    THEN r.files_changed ELSE -1])

\* RepoInfo(...): __post_init__ rejects a negative uncommitted_changes.
RepoInfo(modifications, head_commit, remote_commit) ==
    IF modifications < 0
    THEN Raises("ValueError")
    ELSE Returns([uncommitted_changes |-> modifications,
                  local_commit |-> head_commit, remote_commit |-> remote_commit])

\* get_module_info, and get_kernel_info with MAIN_REPO_PATH for the directory.
get_module_info(r) ==
    IF ~r.found
    THEN Returns(None)
    ELSE LET commits == get_repo_commits(r) IN
         IF commits.raised # "none" THEN commits
         ELSE IF commits.value = None THEN Returns(None)
         ELSE IF ~r.url THEN Returns(None)
         ELSE RepoInfo(commits.value.modifications, commits.value.head_commit,
                       commits.value.remote_commit)

InitInfo ==
    /\ repo \in InfoRepos
    /\ pulled = NoPull
    /\ InitIdleHost

call_get_module_info ==
    /\ pulled = NoPull
    /\ pulled' = get_module_info(repo)
    /\ UNCHANGED repo
    /\ UNCHANGED <<_watcher, notifier, _pending, _drain_task, drain, stop, seen, _cache>>
    /\ UNCHANGED <<_modules, _is_loaded, _state_lock, nextInst, extensions,
                   sys_modules, disk, bak, task, cmdCount>>

NextInfo == call_get_module_info

SpecInfo == InitInfo /\ [][NextInfo]_vars

\* ------------------------------------------------ parse_repo_url (git/utils.py)
\* A string is a sequence of atoms: a word of letters and digits, or one of the
\* characters that the functions below look at.
MaxHost == 3
MaxPath == 3

RECURSIVE SeqsUpTo(_, _)
SeqsUpTo(alphabet, n) ==
    IF n = 0 THEN {<<>>}
    ELSE LET shorter == SeqsUpTo(alphabet, n - 1) IN
         shorter \cup {Append(q, a) : q \in shorter, a \in alphabet}

\* The URLs tried: a scheme, "://", a host part and a path part, the second
\* being a short prefix followed by one of a few endings.
Schemes == {"https", "http"}
Hosts == SeqsUpTo({"github", "www", "com", "."}, MaxHost)
Prefixes == SeqsUpTo({"/", "-", "_", "."}, MaxPath)
Endings == {<<>>, <<".", "git">>, <<"acme", ".", "git">>,
            <<"/", "acme", "/", "widget", ".", "git">>}
Url(scheme, host, prefix, ending) == <<scheme, ":", "/", "/">> \o host \o prefix \o ending

\* The first position of atom a in q at or after position i, or Len(q) + 1.
RECURSIVE Find(_, _, _)
Find(q, a, i) ==
    IF i > Len(q) THEN Len(q) + 1
    ELSE IF q[i] = a THEN i
    ELSE Find(q, a, i + 1)

\* urllib.parse.urlsplit: the scheme before "://", the netloc up to the next
\* "/", the path from there on.
urlsplit(url) ==
    LET c == Find(url, ":", 1)
        has_netloc == c + 2 <= Len(url) /\ url[c + 1] = "/" /\ url[c + 2] = "/"
        e == Find(url, "/", c + 3)
    IN
    IF c > Len(url) \/ c # 2
    THEN [scheme |-> <<>>, netloc |-> <<>>, path |-> url]
    ELSE IF has_netloc
    THEN [scheme |-> SubSeq(url, 1, 1), netloc |-> SubSeq(url, c + 3, e - 1),
          path |-> SubSeq(url, e, Len(url))]
    ELSE [scheme |-> SubSeq(url, 1, 1), netloc |-> <<>>,
          path |-> SubSeq(url, c + 1, Len(url))]

\* str.split("."): the parts between the dots.
RECURSIVE split(_)
split(q) ==
    LET d == Find(q, ".", 1) IN
    IF d > Len(q) THEN <<q>>
    ELSE <<SubSeq(q, 1, d - 1)>> \o split(SubSeq(q, d + 1, Len(q)))

\* ".".join(parts)
RECURSIVE join(_)
join(parts) ==
    IF Len(parts) = 0 THEN <<>>
    ELSE IF Len(parts) = 1 THEN parts[1]
    ELSE parts[1] \o <<".">> \o join(Tail(parts))

\* A host of which every part is kept.
relevant_KeepsAll(parts) == parts

\* The parts that are neither "www" nor "com".
RECURSIVE relevant(_)
relevant(parts) ==
    IF Len(parts) = 0 THEN <<>>
    ELSE IF Head(parts) \in {<<"www">>, <<"com">>} THEN relevant(Tail(parts))
    ELSE <<Head(parts)>> \o relevant(Tail(parts))

\* A translation table that leaves "-" as it is.
GIT_URL_TRANS_MAP_NoHyphen(a) ==
    CASE a = "_" -> "_u_"
      [] a = "/" -> "_s_"
      [] a = "." -> "_d_"
      [] OTHER -> a

\* GIT_URL_TRANS_MAP, applied to one character.
GIT_URL_TRANS_MAP(a) ==
    CASE a = "_" -> "_u_"
      [] a = "/" -> "_s_"
      [] a = "." -> "_d_"
      [] a = "-" -> "_h_"
      [] OTHER -> a

\* str.translate(GIT_URL_TRANS_MAP)
translate(q) == [i \in 1..Len(q) |-> GIT_URL_TRANS_MAP(q[i])]

endswith_git(q) == Len(q) >= 2 /\ q[Len(q) - 1] = "." /\ q[Len(q)] = "git"

\* parse_repo_url: the canonical name and whether the URL is valid.
parse_repo_url(url) ==
    LET parsed == urlsplit(url)
        relevant_netloc == join(relevant(split(parsed.netloc)))
        no_suffix == SubSeq(parsed.path, 1, Len(parsed.path) - 2)
        path_part == IF Len(no_suffix) > 0 /\ no_suffix[1] = "/"
                     THEN Tail(no_suffix) ELSE no_suffix
        invalid == [name |-> <<>>, valid |-> FALSE]
    IN
    IF \/ parsed.scheme # <<"https">>
       \/ parsed.netloc = <<>>
       \/ ~endswith_git(parsed.path)
       \/ Find(parsed.netloc, ".", 1) > Len(parsed.netloc)
    THEN invalid
    ELSE IF relevant_netloc = <<>> THEN invalid
    ELSE IF path_part = <<>> THEN invalid
    ELSE [name |-> translate(relevant_netloc) \o <<"__">> \o translate(path_part),
          valid |-> TRUE]

InitUrl ==
    /\ \E scheme \in Schemes, host \in Hosts, prefix \in Prefixes, ending \in Endings :
         repo = Url(scheme, host, prefix, ending)
    /\ pulled = NoPull
    /\ InitIdleHost

\* parse_repo_url is called on the URL, and then once more.
call_parse_repo_url ==
    /\ pulled = NoPull
    /\ pulled' = [first |-> parse_repo_url(repo), second |-> None]
    /\ UNCHANGED repo
    /\ UNCHANGED <<_watcher, notifier, _pending, _drain_task, drain, stop, seen, _cache>>
    /\ UNCHANGED <<_modules, _is_loaded, _state_lock, nextInst, extensions,
                   sys_modules, disk, bak, task, cmdCount>>

call_parse_repo_url_again ==
    /\ pulled # NoPull
    /\ pulled.second = None
    /\ pulled' = [pulled EXCEPT !.second = parse_repo_url(repo)]
    /\ UNCHANGED repo
    /\ UNCHANGED <<_watcher, notifier, _pending, _drain_task, drain, stop, seen, _cache>>
    /\ UNCHANGED <<_modules, _is_loaded, _state_lock, nextInst, extensions,
                   sys_modules, disk, bak, task, cmdCount>>

NextUrl == call_parse_repo_url \/ call_parse_repo_url_again

SpecUrl == InitUrl /\ [][NextUrl]_vars

\* ------------------------------ Jurigged._target_from_change (jurigged.py)
\* Names are sequences of atoms, "." being an atom of its own.
MaxDepth == 3

\* Directory names under the extensions directory, one of them hidden.
DirNames == {<<"mod">>, <<"sub">>, <<".", "store">>}

\* File names the watch pattern EXTENSIONS_DIR/**/[!.]*.py lets through.
FileNames == {<<"ext", ".", "py">>, <<"main", ".", "py">>}

\* The changed paths, relative to the extensions directory: directories and
\* then a file.
ChangedPaths == {Append(dirs, f) : dirs \in SeqsUpTo(DirNames, MaxDepth - 1), f \in FileNames}

\* getattr(cf, "module_name", ""): the name the changed file was imported under.
CodeFileNames ==
    {<<>>,
     <<"extensions", ".", "mod", ".", "main">>,
     <<"extensions", ".", "ext">>,
     <<"mod", ".", "main">>}

\* str.rfind("."): the last position of "." in q, or 0.
RECURSIVE LastDot(_)
LastDot(q) ==
    IF Len(q) = 0 THEN 0
    ELSE IF q[Len(q)] = "." THEN Len(q)
    ELSE LastDot(SubSeq(q, 1, Len(q) - 1))

\* PurePath.suffix: from the last dot on, unless that dot leads or ends the name.
suffix(name) ==
    LET i == LastDot(name) IN
    IF 1 < i /\ i < Len(name) THEN SubSeq(name, i, Len(name)) ELSE <<>>

\* PurePath.stem
stem(name) ==
    LET i == LastDot(name) IN
    IF 1 < i /\ i < Len(name) THEN SubSeq(name, 1, i - 1) ELSE name

\* str.startswith(prefix)
startswith(q, prefix) ==
    Len(q) >= Len(prefix) /\ SubSeq(q, 1, Len(prefix)) = prefix

_ReloadTarget(kind, name) == [kind |-> kind, name |-> name]

\* Jurigged._target_from_change, lines 301-310: what the imported name says
\* when the path has not decided.
target_from_module_name(module_name) ==
    IF startswith(module_name, <<"extensions", ".">>)
    THEN LET parts == split(module_name) IN
         IF parts[Len(parts)] = <<"main">> /\ Len(parts) >= 2
         THEN _ReloadTarget("module", parts[Len(parts) - 1])
         ELSE _ReloadTarget("extension", module_name)
    ELSE None

\* Jurigged._target_from_change(path, cf): under tells whether the resolved
\* path is inside the extensions directory (relative_to raises ValueError
\* otherwise), parts are the components below it.
_target_from_change(under, parts, module_name) ==
    IF under /\ Len(parts) = 0
    THEN None
    ELSE IF under /\ Len(parts) = 1 /\ suffix(parts[1]) = <<".", "py">>
    THEN _ReloadTarget("extension", <<"extensions", ".">> \o stem(parts[1]))
    ELSE IF under /\ ~startswith(parts[1], <<".">>)
    THEN _ReloadTarget("module", parts[1])
    ELSE target_from_module_name(module_name)

\* A change of any watched file, inside the extensions directory or reached
\* from it, imported under any of the names.
InitTarget ==
    /\ \E under \in BOOLEAN, parts \in ChangedPaths, module_name \in CodeFileNames :
         repo = [under |-> under, parts |-> parts, module_name |-> module_name]
    /\ pulled = NoPull
    /\ InitIdleHost

\* _on_postrun classifies the change.
call_target_from_change ==
    /\ pulled = NoPull
    /\ pulled' = [target |-> _target_from_change(repo.under, repo.parts, repo.module_name)]
    /\ UNCHANGED repo
    /\ UNCHANGED <<_watcher, notifier, _pending, _drain_task, drain, stop, seen, _cache>>
    /\ UNCHANGED <<_modules, _is_loaded, _state_lock, nextInst, extensions,
                   sys_modules, disk, bak, task, cmdCount>>

NextTarget == call_target_from_change

SpecTarget == InitTarget /\ [][NextTarget]_vars

\* ------------------------------------ detect_module_type (modules/utils.py)
\* A module directory as detect_module_type sees it: with or without main.py.
EntryDirs == [main : BOOLEAN]

\* (module_path / "main.py").is_file()
HasEntryFile(d) == d # NoDir /\ d.main

\* The body of detect_module_type: the directory is looked at.
DetectedNow(d) == IF HasEntryFile(d) THEN "PYTHON" ELSE "None"

\* functools.lru_cache: an earlier call with this path has left its result,
\* None included.
Cached(cache, n) == cache[n] # "miss"

\* detect_module_type(path): the cached result when there is one, else the
\* directory's content, which is cached.
detect_module_type(cache, dk, n) ==
    IF Cached(cache, n)
    THEN [result |-> cache[n], cache |-> cache]
    ELSE [result |-> DetectedNow(dk[n]), cache |-> Put(cache, n, DetectedNow(dk[n]))]

\* The process has just started: nothing is cached; every module path is
\* missing or a directory with or without its entry file.
InitDetect ==
    /\ repo = NoRepo
    /\ pulled = NoPull
    /\ _watcher = FALSE
    /\ notifier = "stopped"
    /\ _pending = {}
    /\ _drain_task = FALSE
    /\ drain = NoDrain
    /\ stop = "idle"
    /\ seen = NoSeen
    /\ _cache = [n \in ModuleNames |-> "miss"]
    /\ disk \in [ModuleNames -> EntryDirs \cup {NoDir}]
    /\ bak = [n \in ModuleNames |-> NoDir]
    /\ _modules = [n \in ModuleNames |-> NoInst]
    /\ _is_loaded = [i \in InstIds |-> FALSE]
    /\ _state_lock = [i \in InstIds |-> NoTask]
    /\ nextInst = 1
    /\ extensions = {}
    /\ sys_modules = [n \in ModuleNames |-> NoCode]
    /\ task = [t \in Tasks |-> Idle]
    /\ cmdCount = 0

DetectFrame ==
    /\ UNCHANGED <<repo, pulled, _watcher, notifier, _pending, _drain_task, drain, stop, seen>>
    /\ UNCHANGED <<_modules, _is_loaded, _state_lock, nextInst, extensions, sys_modules, bak>>

\* A module directory is created (cloned or copied), with or without main.py.
create_directory(n) ==
    /\ disk[n] = NoDir
    /\ \E d \in EntryDirs : disk' = Put(disk, n, d)
    /\ DetectFrame
    /\ UNCHANGED <<_cache, task, cmdCount>>

\* A module directory is removed (delete_module, a failed clone, the operator).
remove_directory(n) ==
    /\ disk[n] # NoDir
    /\ disk' = Put(disk, n, NoDir)
    /\ DetectFrame
    /\ UNCHANGED <<_cache, task, cmdCount>>

\* A caller (Registry._create_module, check_local_module) has found the path
\* to be a directory and asks for the kind of the module in it; it keeps the
\* answer and what was on disk.
call_detect_module_type(t, n) ==
    LET d == detect_module_type(_cache, disk, n) IN
    /\ Free(t)
    /\ \A u \in Tasks : u < t => ~Free(u)
    /\ disk[n] # NoDir
    /\ cmdCount < MaxCmds
    /\ cmdCount' = cmdCount + 1
    /\ _cache' = d.cache
    /\ task' = Put(task, t, [Idle EXCEPT !.cmd = "detect_module_type", !.name = n,
                                         !.pc = "done", !.ret = d.result,
                                         !.pre.tree = disk[n]])
    /\ DetectFrame
    /\ UNCHANGED disk

NextDetect ==
    \/ \E n \in ModuleNames : create_directory(n)
    \/ \E n \in ModuleNames : remove_directory(n)
    \/ \E t \in Tasks, n \in ModuleNames : call_detect_module_type(t, n)

SpecDetect == InitDetect /\ [][NextDetect]_vars

TypeOK ==
    /\ _modules \in [Names -> InstIds \cup {NoInst}]
    /\ _is_loaded \in [InstIds -> BOOLEAN]
    /\ _state_lock \in [InstIds -> Tasks \cup {NoTask}]
    /\ nextInst \in 1..(MaxInst + 1)
    /\ extensions \subseteq Names
    /\ \A n \in Names : disk[n] \in Trees \cup {NoDir}
    /\ \A n \in Names : bak[n] \in Trees \cup {NoDir}
    /\ cmdCount \in 0..MaxCmds

\* ---------------------------------------------------------------- claims
\* A registry call of task t returns in this step.
Returned(t) == task'[t].rcalls = task[t].rcalls + 1


\* The task is suspended inside a Module.load or Module.unload call.
InLifecycle(t) ==
    task[t].pc \in {"old_unload", "validate", "reload_resync", "rollback_resync",
                    "fresh_resync", "fresh_delete", "um_resync"}

\* Every lock acquisition of the model is immediate: the instance a task is
\* about to lock is never locked by another task.
AcquireNeverWaits ==
    \A t \in Tasks :
        /\ task[t].pc \in {"lm_call", "rm_call", "um_call", "u_reload", "u_final"}
             => /\ _modules[task[t].name] # NoInst
                     => _state_lock[_modules[task[t].name]] = NoTask
                /\ nextInst <= MaxInst => _state_lock[nextInst] = NoTask
        /\ task[t].pc = "lm_sleep" => _state_lock[task[t].module] = NoTask

\* C1: an update of a registered, loaded module that fails after the backup
\* and whose restore succeeds returns with the module still registered, still
\* loaded with the host, and its directory holding its pre-update contents.
\* Stated for a module whose tree had no uncommitted edits, the case in which
\* the restore does bring the directory back.
C1_FailedUpdateLeavesHostAsBefore ==
    \A t \in Tasks :
        LET r == task[t] IN
        (/\ r.cmd = "cmd_module_update"
         /\ r.pc = "done"
         /\ r.pre.registered /\ r.pre.loaded /\ r.pre.ext
         /\ ~r.pre.tree.dirty
         /\ r.failstep # "none"
         /\ r.restore = "ok")
        => /\ is_module_loaded(r.name)
           /\ r.name \in extensions
           /\ disk[r.name] = r.pre.tree

\* C2: load_module(name, is_reload=False) on a registered name returns False
\* in the step that makes the call, and changes neither the table nor any
\* instance, lock, host registration, code unit or directory.
C2_DuplicateLoadRejected ==
    [][\A t \in Tasks :
          (/\ task[t].pc \in {"lm_call", "u_final"}
           /\ task'[t] # task[t]
           /\ _modules[task[t].name] # NoInst)
          => /\ Returned(t)
             /\ task'[t].ret = "False"
             /\ UNCHANGED <<_modules, _is_loaded, _state_lock, extensions,
                            sys_modules, disk, bak>>]_vars

C2_Witness ==
    \E t \in Tasks :
        /\ task[t].pc = "done"
        /\ task[t].cmd = "load_module"
        /\ task[t].lfail = "duplicate"
        /\ task[t].ret = "False"
        /\ _modules[task[t].name] = task[t].old_module

\* C3: when a reload of a registered name returns after failing at the
\* re-registration step, the table maps the name to the original instance or
\* to nothing (nothing only if the rollback failed too), never to the new
\* instance.
C3_FailedReregistrationTable ==
    [][\A t \in Tasks :
          (/\ Returned(t)
           /\ task'[t].is_reload
           /\ task'[t].old_module # NoInst
           /\ task'[t].lfail \in {"rolled_back", "rollback_failed"})
          => /\ _modules'[task'[t].name] \in {task'[t].old_module, NoInst}
             /\ _modules'[task'[t].name] # task'[t].module
             /\ _modules'[task'[t].name] = NoInst
                   => task'[t].lfail = "rollback_failed"]_vars

C3_Witness ==
    \E t \in Tasks :
        /\ task[t].pc = "done"
        /\ task[t].is_reload
        /\ task[t].old_module # NoInst
        /\ task[t].lfail = "rolled_back"
        /\ _modules[task[t].name] = task[t].old_module

\* C4: when load_module(name, is_reload=True) found an instance under name and
\* returns False, the table maps name to that instance at the return.
C4_FailedReloadRestoresPrevious ==
    [][\A t \in Tasks :
          (/\ Returned(t)
           /\ task'[t].is_reload
           /\ task'[t].old_module # NoInst
           /\ task'[t].ret = "False")
          => _modules'[task'[t].name] = task'[t].old_module]_vars

C4_Witness ==
    \E t \in Tasks :
        /\ task[t].pc = "done"
        /\ task[t].is_reload
        /\ task[t].old_module # NoInst
        /\ task[t].ret = "False"
        /\ task[t].lfail = "validate"
        /\ _modules[task[t].name] = task[t].old_module

\* C5: when a reload through reload_module fails at re-registration and rolls
\* back, the namespace holds the code units the module had before the reload
\* started, and they are registered with the host.
C5_RollbackRestoresPriorVersion ==
    \A t \in Tasks :
        LET r == task[t] IN
        (/\ r.cmd = "reload_module"
         /\ r.pc = "done"
         /\ r.pre.loaded
         /\ r.lfail = "rolled_back")
        => /\ sys_modules[r.name] = r.pre.code
           /\ r.name \in extensions

\* C6: unload_module takes the entry out of the table; when the module's
\* unload fails, the call returns False with the same instance back under
\* its name.
C6_FailedUnloadPutsBack ==
    [][\A t \in Tasks :
          /\ (/\ task[t].pc = "um_call"
              /\ task'[t].pc = "um_resync")
             => _modules'[task[t].name] = NoInst
          /\ (/\ Returned(t)
              /\ task'[t].cmd = "unload_module"
              /\ task'[t].lfail = "unload")
             => /\ task'[t].ret = "False"
                /\ _modules'[task'[t].name] = task'[t].module]_vars

C6_Witness ==
    \E t \in Tasks :
        /\ task[t].pc = "done"
        /\ task[t].cmd = "unload_module"
        /\ task[t].lfail = "unload"
        /\ _modules[task[t].name] = task[t].module
        /\ _is_loaded[task[t].module]

\* C7: no two tasks are inside a Module.load or Module.unload call for the
\* same module name at the same time.
C7_LifecycleCallsSerialized ==
    \A t, u \in Tasks :
        (t # u /\ InLifecycle(t) /\ InLifecycle(u)) => task[t].name # task[u].name

\* C8: of two load_module(name, is_reload=False) calls that both found the
\* name unregistered, at most one returns True, and when one does the module
\* directory is still there and the table holds the winner's instance.
C8_ConcurrentFreshLoadsSafe ==
    \A t, u \in Tasks :
        LET a == task[t]
            b == task[u]
        IN
        (/\ t # u
         /\ a.cmd = "load_module" /\ b.cmd = "load_module"
         /\ a.name = b.name
         /\ a.pc = "done" /\ b.pc = "done"
         /\ a.module # NoInst /\ b.module # NoInst
         /\ a.old_module = NoInst /\ b.old_module = NoInst
         /\ a.ret = "True")
        => /\ b.ret = "False"
           /\ disk[a.name] # NoDir
           /\ _modules[a.name] = a.module

\* C9: an update whose pull returns status 3 never runs the dependency
\* installer, and returns (its restore having succeeded) with the working
\* tree as it was before the update.
C9_PullStatus3RestoresTree ==
    \A t \in Tasks :
        LET r == task[t] IN
        (/\ r.cmd = "cmd_module_update"
         /\ r.pc = "done"
         /\ r.pull_result = 3
         /\ r.restore = "ok")
        => /\ r.pip_calls = 0
           /\ disk[r.name] = r.pre.tree

\* C10: an update that fails after the backup has run _restore_backup by the
\* time it returns, reports the restored result exactly when the restore
\* succeeded and the critical result exactly when it failed.
FailedButRestored(o) == o \in {"restored", "restored_loaded"}

C10_OutcomeFollowsRestore ==
    \A t \in Tasks :
        LET r == task[t] IN
        (/\ r.cmd = "cmd_module_update"
         /\ r.pc = "done"
         /\ r.failstep # "none")
        => /\ r.restore # "none"
           /\ FailedButRestored(r.outcome) <=> r.restore = "ok"
           /\ r.outcome = "critical" <=> r.restore = "fail"

\* The update of task t got past _create_backup: the snapshot was created.
BackupCreated(r) == r.cmd = "cmd_module_update" /\ r.pull_result # -1

\* C11: an update that created a backup snapshot has deleted it by the time
\* the command returns, whichever step failed or none.
C11_SnapshotDeletedAtReturn ==
    \A t \in Tasks :
        LET r == task[t] IN
        (BackupCreated(r) /\ r.pc = "done") => bak[r.name] = NoDir

\* The update of record r has created its snapshot and has not returned.
HoldsSnapshot(r) ==
    /\ r.cmd = "cmd_module_update"
    /\ r.pc \notin {"idle", "u_call", "u_backup", "done"}

\* C12: while an update holds the snapshot it created, no step of another
\* update of the same module removes or overwrites the snapshot directory or
\* restores from it.
C12_SnapshotOwnedByItsUpdate ==
    [][\A t, u \in Tasks :
          (/\ t # u
           /\ HoldsSnapshot(task[u])
           /\ task'[u] = task[u]
           /\ task'[t] # task[t]
           /\ task[t].cmd = "cmd_module_update"
           /\ task[t].name = task[u].name)
          => /\ bak'[task[u].name] = bak[task[u].name]
             /\ task[t].pc # "u_restore"]_vars

\* C13: _create_backup followed immediately by _restore_backup leaves the
\* module directory with the files and contents it had before the backup,
\* with or without uncommitted changes in the tree.
C13_BackupRestoreRoundTrip ==
    \A t \in Tasks :
        LET r == task[t] IN
        (/\ r.cmd = "round_trip"
         /\ r.pc = "done"
         /\ r.restore = "ok")
        => disk[r.name] = r.pre.tree

\* C14: change events for one module within a debounce window collapse into
\* one pending (kind, name) target, and that target produces its reload
\* trigger once the window has elapsed: while the watcher is not being
\* stopped, a pending target is eventually taken out of the pending set by a
\* drain cycle.
C14_PendingTargetIsDrained ==
    \A n \in Names :
        LET x == [kind |-> "module", name |-> n] IN
        (x \in _pending /\ stop = "idle") ~> (x \notin _pending \/ stop # "idle")

\* C15: every change event re-arms the debounce timer, so the pending set is
\* drained never sooner than one debounce delay after the most recent change.
C15_DrainWaitsFullDelay ==
    [][(drain.st = "sleeping" /\ drain'.st = "running")
          => seen.since_change >= Debounce]_vars

DrainAlive(d) == d.st \in {"sleeping", "running", "reloading", "resync"}

C17_NoReloadCancelledMidway ==
    \A t \in Tasks :
        task[t].ret = "cancelled"
            => (task[t].old_module = NoInst \/ _modules[task[t].name] # NoInst)


\* C18: whenever pull_repo returns 0, the local branch reference and HEAD
\* point at the same commit, whatever the repository was like before.
C18_Status0BranchIsHead ==
    pulled.status = 0 => repo.branch = HeadCommit(repo)

\* C19: on every return of pull_repo the working tree, the local branch
\* reference and HEAD have either all been advanced to the remote commit or
\* not changed at all.
C19_AllOrNothing ==
    pulled # NoPull =>
        \/ /\ repo.worktree = repo.remote
           /\ repo.branch = repo.remote
           /\ HeadCommit(repo) = repo.remote
        \/ /\ repo.worktree = pulled.before.worktree
           /\ repo.branch = pulled.before.branch
           /\ HeadCommit(repo) = HeadCommit(pulled.before)

\* C20: pull_repo returns 0, 2 or 3 only; 2 whenever the fetch fails and 0
\* only after a successful fetch; 3 whenever the resolution of a branch or
\* the checkout of the remote tree fails.
C20_StatusCodes ==
    pulled # NoPull =>
        /\ pulled.status \in {0, 2, 3}
        /\ pulled.fetched = "failed" => pulled.status = 2
        /\ pulled.status = 0 => pulled.fetched = "ok"
        /\ pulled.failed \in {"remote_ref", "local_ref", "checkout"} => pulled.status = 3

\* C21: building the repository read-model never raises; when the local or
\* the remote commit cannot be resolved the result is absent or a RepoInfo
\* whose change count is -1.
C21_ReadModelNeverRaises ==
    pulled # NoPull =>
        /\ pulled.raised = "none"
        /\ (repo.head # "commit" \/ repo.remote_ref # "commit")
              => (pulled.value = None \/ pulled.value.uncommitted_changes = -1)

\* C22: Module.load and Module.unload never propagate an exception: every
\* fault inside the lifecycle call, a fault raised while validating included,
\* comes back as a failure Result, so a load_module that removed a table entry
\* always reaches the step that re-inserts one.
C22_LifecycleNeverRaises ==
    \A t \in Tasks : task[t].ret # "raised"

\* https://github.com/acme/widget.git
WidgetUrl ==
    <<"https", ":", "/", "/", "github", ".", "com", "/", "acme", "/", "widget", ".", "git">>

\* C23, as stated: parse_repo_url on https://github.com/acme/widget.git
\* reports the URL as valid and yields github_d_com_s_acme_s_widget.
C23_WidgetNameAsStated ==
    (pulled # NoPull /\ repo = WidgetUrl)
        => /\ pulled.first.valid
           /\ pulled.first.name = <<"github", "_d_", "com", "_s_", "acme", "_s_", "widget">>

\* C23, amended: parse_repo_url on https://github.com/acme/widget.git reports
\* the URL as valid and yields github__acme_s_widget: the "com" part of the
\* host is dropped and host and path are joined by a double underscore.
C23_WidgetName ==
    (pulled # NoPull /\ repo = WidgetUrl)
        => /\ pulled.first.valid
           /\ pulled.first.name = <<"github", "__", "acme", "_s_", "widget">>

C23_Witness == pulled # NoPull /\ repo = WidgetUrl

\* C25: for every https URL with a dotted host and a path ending in .git that
\* parse_repo_url accepts, the canonical name contains no '/', '.' or '-', and
\* a second call on the same URL returns the same name.
C25_NameIsEscapedAndStable ==
    (pulled # NoPull /\ pulled.first.valid)
        => /\ \A i \in 1..Len(pulled.first.name) :
                 pulled.first.name[i] \notin {"/", ".", "-"}
           /\ pulled.second # None => pulled.second = pulled.first

\* An accepted URL with '/', '.', '-' and '_' in its path, parsed twice.
C25_Witness ==
    /\ pulled # NoPull
    /\ pulled.first.valid
    /\ pulled.second # None
    /\ \A a \in {"-", "_", "."} : \E i \in 9..Len(repo) : repo[i] = a
    /\ \E i \in 1..Len(pulled.first.name) : pulled.first.name[i] = "_h_"

\* C24: whatever the interleaving of module load commands, clone_repo is never
\* invoked for a name whose module directory exists at the moment of the call.
C24_NoCloneOverExistingDirectory ==
    [][\A t \in Tasks :
          (task[t].pc = "ml_clone" /\ task'[t].pc # "ml_clone")
              => disk[task[t].name] = NoDir]_vars

\* C26: a module without a dependency manifest has zero dependencies wherever
\* the manifest is consulted: an update of such a module whose pull succeeded
\* does not fail at the dependency step but goes on to the reload step.
C26_NoManifestPassesDependencyStep ==
    [][\A t \in Tasks :
          LET r == task[t] IN
          (/\ r.pc = "u_pip"
           /\ disk[r.name] # NoDir
           /\ ~disk[r.name].reqs
           /\ task'[t] # r)
              => task'[t].pc = "u_reload"]_vars

\* The registry table, the registration with the host, the namespace and the
\* directory of the task's module are what they were when the call was made.
SameAsBefore(r) ==
    /\ (_modules[r.name] # NoInst) = r.pre.registered
    /\ (r.name \in extensions) = r.pre.ext
    /\ sys_modules[r.name] = r.pre.code
    /\ disk[r.name] = r.pre.tree

\* C27: a validation failure inside load_module mutates no state: the table,
\* the module's registration with the host, the namespace and the module's
\* directory are after the call what they were before it, for a fresh load and
\* for a reload of a registered module.
C27_ValidationFailureMutatesNothing ==
    \A t \in Tasks :
        LET r == task[t] IN
        (/\ r.cmd \in {"load_module", "reload_module"}
         /\ r.pc = "done"
         /\ r.ret = "False"
         /\ r.lfail = "validate")
            => SameAsBefore(r)

\* C28: after load_module(name, is_reload=False) returns False because the new
\* instance's load failed, the table has no entry for the name and the module's
\* directory has been removed.
C28_FailedFreshLoadRemovesDirectory ==
    \A t \in Tasks :
        LET r == task[t] IN
        (/\ r.cmd = "load_module"
         /\ r.pc = "done"
         /\ r.ret = "False"
         /\ r.lfail \in {"validate", "register"})
            => /\ _modules[r.name] = NoInst
               /\ disk[r.name] = NoDir

\* C29: reload_module on a name that is not in the table returns False without
\* constructing or loading a Module and leaves the table, the host
\* registrations and the disk unchanged; on a registered name it is
\* load_module(name, is_reload=True): the call goes on as a reload, and it
\* constructs the new Module whenever the module's directory exists.
C29_ReloadOfUnregisteredIsNoOp ==
    [][\A t \in Tasks :
          LET r == task[t] IN
          (r.cmd = "reload_module" /\ r.pc = "rm_call" /\ task'[t] # r) =>
              IF _modules[r.name] = NoInst
              THEN /\ task'[t].pc = "done"
                   /\ task'[t].ret = "False"
                   /\ task'[t].lfail = "not_registered"
                   /\ task'[t].module = NoInst
                   /\ UNCHANGED <<_modules, _is_loaded, nextInst, extensions,
                                  sys_modules, disk>>
              ELSE /\ task'[t].is_reload
                   /\ task'[t].lfail # "not_registered"
                   /\ IF disk[r.name] = NoDir
                      THEN task'[t].ret = "False" /\ task'[t].lfail = "nomodule"
                      ELSE task'[t].module = nextInst /\ nextInst' = nextInst + 1]_vars

C29_Witness ==
    \E t \in Tasks :
        /\ task[t].cmd = "reload_module"
        /\ task[t].pc = "done"
        /\ task[t].lfail = "not_registered"
        /\ _modules[task[t].name] = NoInst

\* The names unload_all has handed to unload_module so far.
Attempted(r) == {r.modules[i] : i \in 1..(r.index - 1)}

\* C30: unload_all attempts to unload every module that is registered when it
\* is called, each whatever the outcome of the others; when it returns, with no
\* other registry call running, the table holds exactly the modules whose
\* unload failed.
C30_UnloadAllLeavesOnlyFailures ==
    \A t \in Tasks :
        LET r == task[t] IN
        (r.cmd = "unload_all" /\ r.pc = "done") =>
            /\ Attempted(r) = {r.modules[i] : i \in 1..Len(r.modules)}
            /\ {n \in DOMAIN _modules : _modules[n] # NoInst} = r.failed

C30_Witness ==
    \E t \in Tasks :
        LET r == task[t] IN
        /\ r.cmd = "unload_all"
        /\ r.pc = "done"
        /\ Len(r.modules) = MaxModules
        /\ \E i, j \in 1..Len(r.modules) :
             /\ i < j
             /\ r.modules[i] \in r.failed
             /\ r.modules[j] \notin r.failed
             /\ _modules[r.modules[j]] = NoInst

\* C31: within one drain of the pending set a failure while reloading one
\* target does not keep the other targets of that drain from being attempted:
\* no target is handed to _reload_target twice or without having been taken,
\* and when the drain task has finished every target it took was handed to
\* _reload_target exactly once.
C31_EveryTakenTargetIsAttemptedOnce ==
    /\ \A x \in Targets : drain.attempts[x] <= (IF x \in drain.taken THEN 1 ELSE 0)
    /\ \A x \in drain.taken : (drain.attempts[x] = 0) = (x \in drain.todo)
          \/ drain.st = "cancelled"
    /\ drain.st = "done" => \A x \in drain.taken : drain.attempts[x] = 1

C31_Witness ==
    /\ drain.st = "done"
    /\ Cardinality(drain.taken) >= 2
    /\ drain.raised # -1
    /\ drain.raised < Cardinality(drain.taken)
    /\ \A x \in drain.taken : drain.attempts[x] = 1

\* C32: the registry's table lock is held only across in-memory reads and
\* writes of the table: in no reachable state is a task suspended in a slow
\* operation (Module.load, Module.unload, the settle delay, the directory
\* deletion, the operator notification) while it holds the lock; a task that
\* holds it is inside a table section.
C32_TableLockNotHeldAcrossSlowOperations ==
    \A t \in Tasks :
        /\ task[t].pc \in SlowPcs => _lock # t
        /\ task[t].locked => task[t].pc \in TablePcs

C32_Witness ==
    \E t, u \in Tasks :
        /\ t # u
        /\ task[t].pc \in SlowPcs
        /\ task[t].old_module # NoInst
        /\ _lock = u
        /\ task[u].pc \in TablePcs

\* C33: in a reload of a registered name the steps are strictly ordered: the
\* old entry leaves the table, the old instance's unload completes, the settle
\* delay elapses, and only then does the new instance's load begin; the new
\* instance's load never runs while the old instance is still loaded.
C33_NewLoadOnlyAfterOldUnloaded ==
    \A t \in Tasks :
        LET r == task[t] IN
        (/\ r.cmd = "reload_module"
         /\ r.is_reload
         /\ r.old_module # NoInst
         /\ r.pc \in {"validate", "reload_resync", "rollback_resync"})
            => /\ _modules[r.name] = NoInst
               /\ ~_is_loaded[r.old_module]

\* C34: detect_module_type(path) reflects the directory's content at the time
\* of the call: after any sequence of creating, deleting and re-creating a
\* module directory at the same path it returns the module kind exactly when
\* the entry file is present, and nothing otherwise.
C34_DetectReflectsCurrentContent ==
    \A t \in Tasks :
        LET r == task[t] IN
        (r.cmd = "detect_module_type" /\ r.pc = "done")
            => r.ret = DetectedNow(r.pre.tree)

\* C35: for a changed path under the module root, _target_from_change gives
\* an extension target named after the stem for a file directly under the
\* root, a module target named after the top-level subdirectory for a file
\* nested under a subdirectory, and no target at all for a path under a
\* subdirectory whose name starts with ".".
C35_ClassifiesChangedPath ==
    (pulled # NoPull /\ repo.under) =>
        LET parts == repo.parts IN
        IF Len(parts) = 1
        THEN pulled.target = _ReloadTarget("extension", <<"extensions", ".">> \o stem(parts[1]))
        ELSE IF parts[1][1] = "."
        THEN pulled.target = None
        ELSE pulled.target = _ReloadTarget("module", parts[1])

\* C36: every target enqueued while the watcher is running is eventually
\* handed to a reload attempt without any later change event, also when it is
\* enqueued while an earlier drain task has emptied the pending set and is
\* still at its reloads: unless the watcher is being stopped, a pending target
\* is eventually taken by a drain and handed to _reload_target.
C36_EnqueuedTargetIsEventuallyAttempted ==
    \A x \in Targets :
        (x \in _pending /\ stop = "idle")
            ~> ((x \notin _pending /\ drain.attempts[x] > 0) \/ stop # "idle")

\* C37: clone_repo never removes a directory that existed before the call:
\* when the target directory is already there the clone returns failure and
\* the directory with its content stays; only a directory the failed call
\* created itself is removed.
C37_CloneKeepsExistingDirectory ==
    [][\A t \in Tasks :
          LET r == task[t] IN
          (r.pc = "ml_clone" /\ task'[t].pc # "ml_clone" /\ disk[r.name] # NoDir)
              => /\ task'[t].outcome = "clone_failed"
                 /\ disk'[r.name] = disk[r.name]]_vars

\* C38: whenever no registry operation is in progress, an instance stored in
\* the table has is_loaded true, so is_module_loaded(name) agrees with the
\* name's being in the table; in particular after a failed reload that put the
\* previous instance back.
C38_TableEntriesAreLoaded ==
    (\A t \in Tasks : Free(t)) =>
        \A n \in Names : (_modules[n] # NoInst) = is_module_loaded(n)

\* C39: on return from a Module.load or Module.unload call that reached the
\* host extension point, the instance's is_loaded flag is true exactly when the
\* module's extension is registered with the host, also when the resync raises
\* after the registration went through; in particular a fresh load that
\* reports failure leaves no extension of the module registered.
C39_LoadedIffExtensionRegistered ==
    \A t \in Tasks :
        LET r == task[t] IN
        (/\ r.cmd \in {"load_module", "reload_module", "unload_module"}
         /\ r.module # NoInst
         /\ \/ r.pc = "lm_delete" /\ r.lfail = "register"
            \/ r.pc = "done" /\ r.lfail \in {"none", "rolled_back", "rollback_failed", "unload"})
            => (_is_loaded[r.module] = (r.name \in extensions))

\* C40: whenever no command is in progress, every name in the registry table
\* has a module directory on disk: the unload command never deletes the
\* directory of a module that stays in the table, be it because its unload
\* failed and it was put back or because its entry was not marked loaded.
C40_RegisteredModulesHaveDirectory ==
    (\A t \in Tasks : Free(t)) =>
        \A n \in Names : _modules[n] # NoInst => disk[n] # NoDir

====
